---------------------------- MODULE Spec2Model ----------------------------
(***************************************************************************)
(* A model of the tradeforyou repository (alpaca_trader): the AI broker's  *)
(* action extraction and dispatch pipeline (broker/ai_broker.py), the REST *)
(* gateway (core/client.py, core/account.py) and the order managers        *)
(* (core/orders.py, official/orders.py).                                   *)
(*                                                                         *)
(* Texts are sequences of tokens.  A token is a run of characters that the *)
(* regular expressions of the source never split: an identifier, one       *)
(* punctuation character, one decimal digit, one blank, one line break.    *)
(***************************************************************************)
EXTENDS Integers, Sequences, FiniteSets, TLC

VARIABLES
    entry,      \* which program / component of the repository is running
    call,       \* the AIBroker method that was called last ("none" before)
    user_input, \* the instruction handed to process_instruction
    returned,   \* what the last call returned to its caller
    response,   \* the text handed to the extractor (the LLM's completion)
    actions,    \* the Action list extracted, or handed to the dispatcher
    results,    \* the dispatcher's result dict: a sequence of <<key, value>>
    calls,      \* the calls the last method made on its outside clients
    raised,     \* the exception the last method raised to its caller, or "no"
    config,          \* ConfigManager.config["alpaca"], in memory
    config_file,     \* the "alpaca" section of the persisted config file
    file_modes,      \* the permission bits of the config file and key file
    account_manager, \* the AccountManager singleton: its credentials
    alpaca_client,   \* the AlpacaClient singleton, once created
    trading_client,  \* OfficialAccountManager.trading_client, or None
    order_manager    \* the OfficialOrderManager singleton, once created

brokerVars ==
    <<call, user_input, returned, response, actions, results, calls, raised>>

traderVars ==
    <<config, config_file, file_modes, account_manager, alpaca_client,
      trading_client, order_manager>>

vars == <<entry, brokerVars, traderVars>>

\* a returned string: the text before the dumped results, the results that
\* are dumped into it, the text after them
Returned(kind, head, res, tail) ==
    [kind |-> kind, head |-> head, results |-> res, tail |-> tail]
NotReturned == Returned("none", <<>>, <<>>, <<>>)

---------------------------------------------------------------------------
(* Tokens and Python's string operations                                   *)

OPEN == "<actions_taken>"
CLOSE == "</actions_taken>"
NL == "\n"
SP == " "
DQ == "\""
SQ == "'"

DigitTokens == {"0", "1", "2"}
QuoteTokens == {DQ, SQ}
SpaceTokens == {SP, NL}
\* letters only: what [A-Z]+ matches under re.IGNORECASE
WordTokens == {"AAPL", "MSFT", "aapl", "symbol", "quantity", "buy", "Buy",
               "shares", "share", "of", "SYMBOL", "QUANTITY", "BUY",
               "SHARES", "SHARE", "OF"}
NameTokens == {"buy_stock", "get_stock_price", "get_account_info",
               "BUY_STOCK", "GET_STOCK_PRICE", "GET_ACCOUNT_INFO"}
PunctTokens == {"(", ")", ",", "=", "-", "."}
TagTokens == {OPEN, CLOSE, "<ACTIONS_TAKEN>", "</ACTIONS_TAKEN>",
              "<results>", "<RESULTS>"}

Tokens == DigitTokens \cup QuoteTokens \cup SpaceTokens \cup WordTokens
          \cup NameTokens \cup PunctTokens \cup TagTokens

\* a token may also be one letter: a text is then a sequence of characters
LowerLetters ==
    <<"a", "b", "c", "d", "e", "f", "g", "h", "i", "j", "k", "l", "m",
      "n", "o", "p", "q", "r", "s", "t", "u", "v", "w", "x", "y", "z">>
UpperLetters ==
    <<"A", "B", "C", "D", "E", "F", "G", "H", "I", "J", "K", "L", "M",
      "N", "O", "P", "Q", "R", "S", "T", "U", "V", "W", "X", "Y", "Z">>

\* str.upper() of one token
UpperTok(t) ==
    CASE t = "aapl" -> "AAPL"
      [] t = "msft" -> "MSFT"
      [] t = "symbol" -> "SYMBOL"
      [] t = "quantity" -> "QUANTITY"
      [] t \in {"buy", "Buy"} -> "BUY"
      [] t \in {"sell", "Sell"} -> "SELL"
      [] t = "shares" -> "SHARES"
      [] t = "share" -> "SHARE"
      [] t = "of" -> "OF"
      [] t = "buy_stock" -> "BUY_STOCK"
      [] t = "get_stock_price" -> "GET_STOCK_PRICE"
      [] t = "get_account_info" -> "GET_ACCOUNT_INFO"
      [] t = OPEN -> "<ACTIONS_TAKEN>"
      [] t = CLOSE -> "</ACTIONS_TAKEN>"
      [] t = "<results>" -> "<RESULTS>"
      [] \E k \in 1..26 : LowerLetters[k] = t ->
           UpperLetters[CHOOSE k \in 1..26 : LowerLetters[k] = t]
      [] OTHER -> t

\* str.upper()
Upper(s) == [i \in 1..Len(s) |-> UpperTok(s[i])]

RECURSIVE LStrip(_, _)
LStrip(s, chars) ==
    IF s # <<>> /\ Head(s) \in chars THEN LStrip(Tail(s), chars) ELSE s

RECURSIVE RStrip(_, _)
RStrip(s, chars) ==
    IF s # <<>> /\ s[Len(s)] \in chars
    THEN RStrip(SubSeq(s, 1, Len(s) - 1), chars) ELSE s

\* str.strip(chars); str.strip() strips white space
StripChars(s, chars) == RStrip(LStrip(s, chars), chars)
Strip(s) == StripChars(s, SpaceTokens)

\* str.split('\n')
RECURSIVE SplitLines(_)
SplitLines(s) ==
    IF \A i \in 1..Len(s) : s[i] # NL THEN <<s>>
    ELSE LET i == CHOOSE j \in 1..Len(s) :
                      s[j] = NL /\ \A k \in 1..(j - 1) : s[k] # NL
         IN <<SubSeq(s, 1, i - 1)>> \o SplitLines(SubSeq(s, i + 1, Len(s)))

DigitValue(t) == CASE t = "0" -> 0 [] t = "1" -> 1 [] t = "2" -> 2

\* int() of a run of decimal digits
RECURSIVE ParseDigits(_)
ParseDigits(s) ==
    IF s = <<>> THEN 0
    ELSE 10 * ParseDigits(SubSeq(s, 1, Len(s) - 1)) + DigitValue(s[Len(s)])

---------------------------------------------------------------------------
(* Python's re.search, for the patterns the source uses: a pattern is a    *)
(* sequence of items, each a character class with a repetition (once,      *)
(* optional, *, +; greedy or lazy) and the number of the group that        *)
(* captures it (0: none).                                                  *)

Item(cls, min, many, lazy, grp) ==
    [cls |-> cls, min |-> min, many |-> many, lazy |-> lazy, grp |-> grp]

\* a literal under re.IGNORECASE, and a case-sensitive one
Lit(t) == Item({x \in Tokens : UpperTok(x) = UpperTok(t)}, 1, FALSE, FALSE, 0)
LitCS(t) == Item({t}, 1, FALSE, FALSE, 0)
Ws0 == Item(SpaceTokens, 0, TRUE, FALSE, 0)            \* \s*
Ws1 == Item(SpaceTokens, 1, TRUE, FALSE, 0)            \* \s+
OptQuote == Item(QuoteTokens, 0, FALSE, FALSE, 0)      \* (?:"|\')?
LazyAny(g) == Item(Tokens \ {NL}, 0, TRUE, TRUE, g)    \* (.*?)
LazyAll(g) == Item(Tokens, 0, TRUE, TRUE, g)           \* (.*?) with re.DOTALL
Digits(g) == Item(DigitTokens, 1, TRUE, FALSE, g)      \* (\d+)
Letters(g) == Item(WordTokens, 1, TRUE, FALSE, g)      \* ([A-Z]+), IGNORECASE
Shares == Item({x \in Tokens : UpperTok(x) \in {"SHARES", "SHARE"}},
               1, FALSE, FALSE, 0)                     \* shares?

NoMatch == [ok |-> FALSE, caps |-> <<<<>>, <<>>>>, end |-> 0]

RECURSIVE RunLen(_, _, _)
RunLen(line, pos, cls) ==
    IF pos <= Len(line) /\ line[pos] \in cls
    THEN 1 + RunLen(line, pos + 1, cls) ELSE 0

RECURSIVE MatchFrom(_, _, _, _, _)
RECURSIVE TryCount(_, _, _, _, _, _, _)

\* items k.. of pat matched at pos: the first match in backtracking order
MatchFrom(pat, k, line, pos, caps) ==
    IF k > Len(pat) THEN [ok |-> TRUE, caps |-> caps, end |-> pos]
    ELSE LET it == pat[k]
             run == RunLen(line, pos, it.cls)
             hi == IF it.many THEN run ELSE IF run >= 1 THEN 1 ELSE 0
         IN IF hi < it.min THEN NoMatch
            ELSE TryCount(pat, k, line, pos, caps,
                          IF it.lazy THEN it.min ELSE hi, hi)

TryCount(pat, k, line, pos, caps, n, hi) ==
    LET it == pat[k]
        caps2 == IF it.grp = 0 THEN caps
                 ELSE [caps EXCEPT ![it.grp] = SubSeq(line, pos, pos + n - 1)]
        r == MatchFrom(pat, k + 1, line, pos + n, caps2)
    IN IF r.ok THEN r
       ELSE IF it.lazy
            THEN IF n < hi THEN TryCount(pat, k, line, pos, caps, n + 1, hi)
                 ELSE NoMatch
            ELSE IF n > it.min THEN TryCount(pat, k, line, pos, caps, n - 1, hi)
                 ELSE NoMatch

RECURSIVE SearchFrom(_, _, _)
SearchFrom(pat, line, start) ==
    IF start > Len(line) + 1 THEN NoMatch
    ELSE LET r == MatchFrom(pat, 1, line, start, <<<<>>, <<>>>>)
         IN IF r.ok THEN r ELSE SearchFrom(pat, line, start + 1)

\* re.search(pattern, line, re.IGNORECASE): the leftmost match
Search(pat, line) == SearchFrom(pat, line, 1)

---------------------------------------------------------------------------
(* AIBroker.extract_action_from_response                                   *)

\* Python values held in an Action's params
PyStr(s) == [ty |-> "str", s |-> s, n |-> 0]
PyInt(n) == [ty |-> "int", s |-> <<>>, n |-> n]
PyNone == [ty |-> "none", s |-> <<>>, n |-> 0]

EmptyDict == [k \in {} |-> PyNone]

\* credentials: an API key, its secret and the base URL of the environment
Credentials(api_key, api_secret, base_url) ==
    [api_key |-> api_key, api_secret |-> api_secret, base_url |-> base_url]
NoCredentials == Credentials(PyNone, PyNone, PyNone)

\* the permission bits of the two files: "absent" for a file that is not
\* there, else the mode in octal
FileModes(config_mode, key_mode) ==
    [config_file |-> config_mode, key_file |-> key_mode]

\* "_alpaca_client = None": no client was created yet
NoClient ==
    [created |-> FALSE, api_key |-> PyNone, api_secret |-> PyNone,
     base_url |-> PyNone, urls |-> FALSE]

\* "_official_order_manager = None": no order manager was created yet
NoManager == [created |-> FALSE, trading_client |-> PyNone]

\* the trader's objects while the AI broker runs: it does not use them
TraderIdle ==
    /\ config = NoCredentials
    /\ config_file = NoCredentials
    /\ file_modes = FileModes("absent", "absent")
    /\ account_manager = NoCredentials
    /\ alpaca_client = NoClient
    /\ trading_client = PyNone
    /\ order_manager = NoManager

BuyAction(symbol, quantity) ==
    [action |-> "buy_stock",
     params |-> [symbol |-> PyStr(symbol), quantity |-> PyInt(quantity)]]
PriceAction(symbol) ==
    [action |-> "get_stock_price", params |-> [symbol |-> PyStr(symbol)]]
AccountAction == [action |-> "get_account_info", params |-> EmptyDict]

\* the section pattern with a greedy (.*) in place of the lazy one
actions_taken_pattern_greedy ==
    <<LitCS(OPEN), Item(Tokens, 0, TRUE, FALSE, 1), LitCS(CLOSE)>>

\* r'<actions_taken>(.*?)</actions_taken>' with re.DOTALL
actions_taken_pattern == <<LitCS(OPEN), LazyAll(1), LitCS(CLOSE)>>

\* action_patterns[0..7] of the source are action_patterns[1..8] here
action_patterns == <<
    <<Lit("buy_stock"), Lit("("), Ws0, OptQuote, LazyAny(1), OptQuote, Ws0,
      Lit(","), Ws0, Digits(2), Ws0, Lit(")")>>,
    <<Lit("buy_stock"), Lit("("), Ws0, OptQuote, LazyAny(1), OptQuote, Ws0,
      Lit(","), Ws0, Lit("quantity"), Ws0, Lit("="), Ws0, Digits(2), Ws0,
      Lit(")")>>,
    <<Lit("buy_stock"), Lit("("), Ws0, Lit("symbol"), Ws0, Lit("="), Ws0,
      OptQuote, LazyAny(1), OptQuote, Ws0, Lit(","), Ws0, Lit("quantity"),
      Ws0, Lit("="), Ws0, Digits(2), Ws0, Lit(")")>>,
    <<Lit("buy"), Ws1, Digits(1), Ws1, Shares, Ws1, Lit("of"), Ws1,
      Letters(2)>>,
    <<Lit("buy"), Ws1, Letters(1), Ws1, Digits(2), Ws1, Shares>>,
    <<Lit("get_stock_price"), Lit("("), Ws0, OptQuote, LazyAny(1), OptQuote,
      Ws0, Lit(")")>>,
    <<Lit("get_stock_price"), Lit("("), Ws0, Lit("symbol"), Ws0, Lit("="),
      Ws0, OptQuote, LazyAny(1), OptQuote, Ws0, Lit(")")>>,
    <<Lit("get_account_info"), Lit("("), Ws0, Lit(")")>>
  >>

\* the first pattern_index of idxs whose pattern matches the line, or -1
RECURSIVE FirstMatching(_, _)
FirstMatching(line, idxs) ==
    IF idxs = <<>> THEN -1
    ELSE IF Search(action_patterns[Head(idxs) + 1], line).ok THEN Head(idxs)
    ELSE FirstMatching(line, Tail(idxs))

\* the validation with "quantity >= 0" in place of "quantity > 0"
ValidBuy_zero_allowed(symbol, quantity) == symbol # <<>> /\ quantity >= 0

\* "if symbol and quantity > 0"
ValidBuy(symbol, quantity) == symbol # <<>> /\ quantity > 0

\* the buy that pattern_index gives for the line, if it matches
BuyByPattern(line, pattern_index) ==
    LET match == Search(action_patterns[pattern_index + 1], line)
    IN IF ~match.ok THEN <<>>
       ELSE IF pattern_index <= 2
       THEN <<BuyAction(Upper(StripChars(Strip(match.caps[1]), QuoteTokens)),
                        ParseDigits(match.caps[2]))>>
       ELSE IF pattern_index = 3
       THEN <<BuyAction(Upper(Strip(match.caps[2])),
                        ParseDigits(match.caps[1]))>>
       ELSE <<BuyAction(Upper(Strip(match.caps[1])),
                        ParseDigits(match.caps[2]))>>

\* the buy loop without its "break": every pattern that matches adds a buy
BuyActionsOfLine_no_break(line) ==
    BuyByPattern(line, 0) \o BuyByPattern(line, 1) \o BuyByPattern(line, 2)
        \o BuyByPattern(line, 3) \o BuyByPattern(line, 4)

\* the "Check for buy_stock patterns" loop, for one line
BuyActionsOfLine(line) ==
    LET pattern_index == FirstMatching(line, <<0, 1, 2, 3, 4>>)
    IN IF pattern_index = -1 THEN <<>>
       ELSE LET match == Search(action_patterns[pattern_index + 1], line)
                symbol ==
                    IF pattern_index <= 2
                    THEN Upper(StripChars(Strip(match.caps[1]), QuoteTokens))
                    ELSE IF pattern_index = 3 THEN Upper(Strip(match.caps[2]))
                    ELSE Upper(Strip(match.caps[1]))
                quantity ==
                    IF pattern_index = 3 THEN ParseDigits(match.caps[1])
                    ELSE ParseDigits(match.caps[2])
            IN IF ValidBuy(symbol, quantity)
               THEN <<BuyAction(symbol, quantity)>> ELSE <<>>

\* the "Check for get_stock_price patterns" loop, for one line
PriceActionsOfLine(line) ==
    LET pattern_index == FirstMatching(line, <<5, 6>>)
    IN IF pattern_index = -1 THEN <<>>
       ELSE LET match == Search(action_patterns[pattern_index + 1], line)
                symbol == Upper(StripChars(Strip(match.caps[1]), QuoteTokens))
            IN IF symbol # <<>> THEN <<PriceAction(symbol)>> ELSE <<>>

\* the "Check for get_account_info pattern" test, for one line
AccountActionsOfLine(line) ==
    IF Search(action_patterns[8], line).ok THEN <<AccountAction>> ELSE <<>>

\* the body of "for line in actions_text.split('\n')"
RECURSIVE ActionsOfLines(_)
ActionsOfLines(lines) ==
    IF lines = <<>> THEN <<>>
    ELSE LET line == Strip(Head(lines))
         IN (IF line = <<>> THEN <<>>
             ELSE BuyActionsOfLine(line) \o PriceActionsOfLine(line)
                  \o AccountActionsOfLine(line))
            \o ActionsOfLines(Tail(lines))

\* the extractor reading every line of the text, block or no block
extract_action_from_response_whole_text(text) ==
    ActionsOfLines(SplitLines(Strip(text)))

extract_action_from_response(text) ==
    LET actions_taken_match == Search(actions_taken_pattern, text)
    IN IF ~actions_taken_match.ok THEN <<>>
       ELSE ActionsOfLines(SplitLines(Strip(actions_taken_match.caps[1])))

---------------------------------------------------------------------------
(* The texts the extractor is run on                                       *)

MaxLines == 2

DigitTok(d) == CASE d = 0 -> "0" [] d = 1 -> "1" [] d = 2 -> "2"

\* str(n) of an integer whose decimal digits are 0, 1 and 2
RECURSIVE IntStr(_)
IntStr(n) ==
    IF n < 0 THEN <<"-">> \o IntStr(0 - n)
    ELSE IF n < 10 THEN <<DigitTok(n)>>
    ELSE IntStr(n \div 10) \o <<DigitTok(n % 10)>>

Tickers == {"AAPL", "MSFT"}
SymbolWords == Tickers \cup {"aapl"}
Quantities == {-2, -1, 0, 1, 2, 10}
QuoteStyles == {DQ, SQ, "none"}
BuySyntaxes == {"positional", "keyword_quantity", "full_keyword",
                "shares_of", "symbol_shares"}
CallSyntaxes == {"positional", "keyword_quantity", "full_keyword"}

Quoted(q, s) == IF q = "none" THEN <<s>> ELSE <<q, s, q>>

\* one buy, written in syntax v
BuyLine(v, q, s, n) ==
    CASE v = "positional" ->
           <<"buy_stock", "(">> \o Quoted(q, s) \o <<",", SP>> \o IntStr(n)
           \o <<")">>
      [] v = "keyword_quantity" ->
           <<"buy_stock", "(">> \o Quoted(q, s)
           \o <<",", SP, "quantity", "=">> \o IntStr(n) \o <<")">>
      [] v = "full_keyword" ->
           <<"buy_stock", "(", "symbol", "=">> \o Quoted(q, s)
           \o <<",", SP, "quantity", "=">> \o IntStr(n) \o <<")">>
      [] v = "shares_of" ->
           <<"Buy", SP>> \o IntStr(n) \o <<SP, "shares", SP, "of", SP, s>>
      [] v = "symbol_shares" ->
           <<"Buy", SP, s, SP>> \o IntStr(n) \o <<SP, "shares">>

PriceLine(v, q, s) ==
    IF v = "positional" THEN <<"get_stock_price", "(">> \o Quoted(q, s) \o <<")">>
    ELSE <<"get_stock_price", "(", "symbol", "=">> \o Quoted(q, s) \o <<")">>

AccountLine == <<"get_account_info", "(", ")">>

BuyLines ==
    {BuyLine(v, q, s, n) : v \in CallSyntaxes, q \in QuoteStyles,
                           s \in SymbolWords, n \in Quantities}
    \cup {BuyLine(v, "none", s, n) : v \in {"shares_of", "symbol_shares"},
                                     s \in SymbolWords, n \in Quantities}
PriceLines ==
    {PriceLine(v, q, s) : v \in {"positional", "full_keyword"},
                          q \in QuoteStyles, s \in SymbolWords}
\* lines holding several calls, and a line holding none
CompoundLines ==
    { BuyLine("positional", DQ, "AAPL", 10) \o <<SP>>
        \o PriceLine("positional", DQ, "AAPL") \o <<SP>> \o AccountLine,
      BuyLine("positional", DQ, "AAPL", 10) \o <<",", SP>>
        \o BuyLine("positional", DQ, "MSFT", 2),
      BuyLine("shares_of", "none", "AAPL", 1) \o <<SP>>
        \o BuyLine("keyword_quantity", DQ, "MSFT", 2),
      PriceLine("positional", DQ, "AAPL") \o <<SP>> \o AccountLine,
      <<"quantity", SP, "of", SP, "shares", ".">>,
      <<"buy_stock", "(", DQ, DQ, ",", SP, "1", ")">> }
Lines == BuyLines \cup PriceLines \cup {AccountLine} \cup CompoundLines

CoreLines ==
    { BuyLine("positional", DQ, "AAPL", 10),
      BuyLine("full_keyword", DQ, "MSFT", 2),
      BuyLine("shares_of", "none", "MSFT", 0),
      PriceLine("positional", SQ, "aapl"),
      AccountLine,
      <<>> }

RECURSIVE JoinLines(_)
JoinLines(ls) ==
    IF ls = <<>> THEN <<>>
    ELSE IF Len(ls) = 1 THEN ls[1]
    ELSE ls[1] \o <<NL>> \o JoinLines(Tail(ls))

\* the actions section as the prompt asks for it
Block(ls) == <<OPEN, NL>> \o JoinLines(ls) \o <<NL, CLOSE>>

\* <actions_taken>buy_stock("AAPL", 10)</actions_taken>
AaplBlock == <<OPEN>> \o BuyLine("positional", DQ, "AAPL", 10) \o <<CLOSE>>

Prefixes ==
    { <<>>,
      <<"<results>", NL>>,
      <<"Buy", SP, "AAPL", ".", NL>>,
      BuyLine("positional", DQ, "MSFT", 2) \o <<NL>>,
      <<OPEN>> \o AccountLine \o <<CLOSE, NL>>,
      <<OPEN, NL>> \o BuyLine("positional", DQ, "MSFT", 2) \o <<NL>>,
      <<OPEN, SP>>,
      <<CLOSE, NL>> }
Suffixes ==
    { <<>>,
      <<NL, "<results>", NL>> \o BuyLine("positional", DQ, "MSFT", 2),
      <<CLOSE>>,
      <<NL, OPEN>> \o AccountLine \o <<CLOSE>> }

LineSeqs(n) == [1..n -> CoreLines]

Responses ==
    {Block(<<l>>) : l \in Lines}
    \cup {pre \o AaplBlock \o post : pre \in Prefixes, post \in Suffixes}
    \cup UNION {{Block(ls) : ls \in LineSeqs(n)} : n \in 2..MaxLines}
    \cup {l \o <<NL>> : l \in CoreLines}
    \cup {<<OPEN, NL>> \o l : l \in CoreLines}

---------------------------------------------------------------------------
(* The extractor, called on a text                                         *)

InitExtract ==
    /\ entry = "broker"
    /\ call = "none"
    /\ user_input = <<>>
    /\ returned = NotReturned
    /\ response \in Responses
    /\ actions = <<>>
    /\ results = <<>>
    /\ calls = <<>>
    /\ raised = "no"
    /\ TraderIdle

ExtractCall ==
    /\ entry = "broker"
    /\ call = "none"
    /\ call' = "extract_action_from_response"
    /\ actions' = extract_action_from_response(response)
    /\ UNCHANGED <<entry, user_input, returned, response, results, calls,
                   raised, traderVars>>

NextExtract == ExtractCall

SpecExtract == InitExtract /\ [][NextExtract]_vars

---------------------------------------------------------------------------
(* Properties of the extractor                                             *)

Extracted == call = "extract_action_from_response"

\* sub occurs in text at position i
OccursAt(text, sub, i) ==
    /\ i >= 1
    /\ i + Len(sub) - 1 <= Len(text)
    /\ SubSeq(text, i, i + Len(sub) - 1) = sub

AaplAction == BuyAction(<<"AAPL">>, 10)

\* C1, as stated: whatever text surrounds the block
\* <actions_taken>buy_stock("AAPL", 10)</actions_taken>, the extractor
\* returns exactly [buy_stock AAPL 10].
C1_AnyTextAroundBlock ==
    (Extracted /\ \E i \in 1..Len(response) : OccursAt(response, AaplBlock, i))
        => actions = <<AaplAction>>

\* C1, amended: when no <actions_taken> tag occurs in the text before the
\* block (the block is the first actions section of the response), the
\* extractor returns exactly [buy_stock AAPL 10], whatever else surrounds it.
C1_FirstBlockDecides ==
    \A i \in 1..Len(response) :
        ( /\ Extracted
          /\ OccursAt(response, AaplBlock, i)
          /\ \A j \in 1..(i - 1) : response[j] # OPEN )
            => actions = <<AaplAction>>

C1_Witness ==
    /\ Extracted
    /\ \E i \in 2..Len(response) :
          /\ OccursAt(response, AaplBlock, i)
          /\ \A j \in 1..(i - 1) : response[j] # OPEN
          /\ i + Len(AaplBlock) - 1 < Len(response)
          /\ \E k \in (i + Len(AaplBlock))..Len(response) : response[k] = OPEN
    /\ actions = <<AaplAction>>

\* C2: for every ticker S and positive N, each of buy_stock("S", N),
\* buy_stock("S", quantity=N) and buy_stock(symbol="S", quantity=N), alone
\* on a line of the actions block, yields the one record
\* {buy_stock, symbol S, quantity N}.
C2_ThreeSyntaxesSameRecord ==
    \A v \in CallSyntaxes, S \in Tickers, N \in {n \in Quantities : n > 0} :
        (Extracted /\ response = Block(<<BuyLine(v, DQ, S, N)>>))
            => actions = <<BuyAction(<<S>>, N)>>

\* C3: a line that is one buy, in any of the five buy syntaxes, with a
\* quantity of 0 or below yields no Action, and every buy_stock Action the
\* extractor returns has a quantity above 0 and a non-empty symbol.
C3_NoBuyWithoutPositiveQuantity ==
    /\ \A v \in BuySyntaxes, q \in QuoteStyles, S \in SymbolWords,
          N \in {n \in Quantities : n <= 0} :
          (Extracted /\ response = Block(<<BuyLine(v, q, S, N)>>))
              => actions = <<>>
    /\ Extracted =>
          \A i \in 1..Len(actions) :
              actions[i].action = "buy_stock" =>
                  /\ actions[i].params.quantity.ty = "int"
                  /\ actions[i].params.quantity.n > 0
                  /\ actions[i].params.symbol.s # <<>>

C3_Witness ==
    /\ Extracted
    /\ response = Block(<<BuyLine("symbol_shares", "none", "AAPL", 0)>>)
    /\ actions = <<>>

---------------------------------------------------------------------------
(* AIBroker.buy_stock, get_stock_price, get_account_info                   *)

\* what a broker operation returns: a dict with a "status"
Result(status, message, symbol, quantity) ==
    [status |-> status, message |-> message, symbol |-> symbol,
     quantity |-> quantity]
ErrorResult(message) == Result("error", message, <<>>, 0)

\* one call on the trading client, the data client or the completion client
Call(op, req, outcome) == [op |-> op, req |-> req, outcome |-> outcome]

\* what a broker operation does: its return value, the calls it made, and
\* the exception it raised ("no": none)
Done(result, cs) == [result |-> result, calls |-> cs, raised |-> "no"]
Raise(exc, cs) == [result |-> ErrorResult(exc), calls |-> cs, raised |-> exc]

\* MarketOrderRequest(symbol=..., qty=..., side=OrderSide.BUY,
\*                    time_in_force=TimeInForce.DAY): qty set, notional not
MarketOrderRequest(symbol, qty) ==
    [symbol |-> symbol, qty |-> PyInt(qty), side |-> "buy",
     time_in_force |-> "day"]

\* buy_stock submitting a rejected order a second time
buy_stock_retry(symbol, quantity, outcome) ==
    IF symbol = <<>> THEN Done(ErrorResult("Symbol is required"), <<>>)
    ELSE IF quantity <= 0
    THEN Done(ErrorResult("Quantity must be positive"), <<>>)
    ELSE LET order_data == MarketOrderRequest(Upper(symbol), quantity)
             c == Call("submit_order", order_data, outcome)
         IN IF outcome = "accept"
            THEN Done(Result("success", "", order_data.symbol, quantity), <<c>>)
            ELSE Done(ErrorResult("APIError"), <<c, c>>)

\* buy_stock cancelling every open order when a submission is rejected
buy_stock_rollback(symbol, quantity, outcome) ==
    IF symbol = <<>> THEN Done(ErrorResult("Symbol is required"), <<>>)
    ELSE IF quantity <= 0
    THEN Done(ErrorResult("Quantity must be positive"), <<>>)
    ELSE LET order_data == MarketOrderRequest(Upper(symbol), quantity)
             c == Call("submit_order", order_data, outcome)
         IN IF outcome = "accept"
            THEN Done(Result("success", "", order_data.symbol, quantity), <<c>>)
            ELSE Done(ErrorResult("APIError"),
                      <<c, Call("cancel_orders", order_data, "ok")>>)

\* outcome: whether the brokerage accepts the order ("accept") or the
\* submission raises ("reject")
buy_stock(symbol, quantity, outcome) ==
    IF symbol = <<>> THEN Done(ErrorResult("Symbol is required"), <<>>)
    ELSE IF quantity <= 0
    THEN Done(ErrorResult("Quantity must be positive"), <<>>)
    ELSE LET order_data == MarketOrderRequest(Upper(symbol), quantity)
             c == Call("submit_order", order_data, outcome)
         IN IF outcome = "accept"
            THEN Done(Result("success", "", order_data.symbol, quantity), <<c>>)
            ELSE Done(ErrorResult("APIError"), <<c>>)

\* [TimeFrame.Day, TimeFrame.Hour, TimeFrame.Minute]
price_timeframes == <<"Day", "Hour", "Minute">>

BarsRequest(symbol, timeframe, days, limit) ==
    [symbol |-> symbol, timeframe |-> timeframe, days |-> days,
     limit |-> limit]

\* the loop over the timeframes from the k-th on; bars[k] is what the data
\* client answers to the k-th request: "bars", "empty" or "raise"
RECURSIVE PriceTimeframes(_, _, _, _)
PriceTimeframes(symbol, bars, k, cs) ==
    IF k > Len(price_timeframes)
    THEN \* the broader date range: 90 days of daily bars
         LET c == Call("get_stock_bars", BarsRequest(symbol, "Day", 90, 5),
                       bars[k])
         IN IF bars[k] = "bars"
            THEN Done(Result("success", "Historical price data", symbol, 0),
                      cs \o <<c>>)
            ELSE Done(Result("partial", "No price data available", symbol, 0),
                      cs \o <<c>>)
    ELSE LET c == Call("get_stock_bars",
                       BarsRequest(symbol, price_timeframes[k], 30, 1),
                       bars[k])
         IN IF bars[k] = "bars"
            THEN Done(Result("success", "Price from latest bar", symbol, 0),
                      cs \o <<c>>)
            ELSE PriceTimeframes(symbol, bars, k + 1, cs \o <<c>>)

get_stock_price(symbol, bars) ==
    PriceTimeframes(Upper(Strip(symbol)), bars, 1, <<>>)

\* the dict literal names "status" twice: the account's status wins
get_account_info(outcome) ==
    LET c == Call("get_account", EmptyDict, outcome)
    IN IF outcome = "ok" THEN Done(Result("ACTIVE", "", <<>>, 0), <<c>>)
       ELSE Done(ErrorResult("APIError"), <<c>>)

---------------------------------------------------------------------------
(* AIBroker.execute_actions                                                *)

IsDigitRun(s) == s # <<>> /\ \A i \in 1..Len(s) : s[i] \in DigitTokens

\* a float: n is the number cut off towards zero, s the digits behind the
\* point
PyFloat(n, frac) == [ty |-> "float", s |-> frac, n |-> n]

\* Python's int(v): ok is FALSE where it raises ValueError or TypeError; a
\* float is cut off towards zero
PyIntOf(v) ==
    CASE v.ty = "int" -> [ok |-> TRUE, n |-> v.n]
      [] v.ty = "str" ->
           LET t == Strip(v.s)
           IN IF IsDigitRun(t) THEN [ok |-> TRUE, n |-> ParseDigits(t)]
              ELSE IF t # <<>> /\ Head(t) = "-" /\ IsDigitRun(Tail(t))
              THEN [ok |-> TRUE, n |-> 0 - ParseDigits(Tail(t))]
              ELSE [ok |-> FALSE, n |-> 0]
      [] v.ty = "float" -> [ok |-> TRUE, n |-> v.n]
      [] OTHER -> [ok |-> FALSE, n |-> 0]

\* dict.get(key, default)
DictGet(d, key, default) == IF key \in DOMAIN d THEN d[key] ELSE default

\* f"{action_name}_{i}", f"{action_name}_{i}_error", f"unknown_action_{i}"
ResultKey(action_name, i) == <<action_name, "_">> \o IntStr(i)
\* the key of the except clause without its suffix
ErrorKey_plain(action_name, i) == ResultKey(action_name, i)
ErrorKey(action_name, i) == ResultKey(action_name, i) \o <<"_error">>
\* the key of an unknown name without the index
UnknownKey_no_index(i) == <<"unknown_action">>
UnknownKey(i) == ResultKey("unknown_action", i)

\* results[key] = value
RECURSIVE DictSet(_, _, _)
DictSet(d, key, value) ==
    IF d = <<>> THEN <<<<key, value>>>>
    ELSE IF Head(d)[1] = key THEN <<<<key, value>>>> \o Tail(d)
    ELSE <<Head(d)>> \o DictSet(Tail(d), key, value)

HasKey(d, key) == \E j \in 1..Len(d) : d[j][1] = key
ValueAt(d, key) == d[CHOOSE j \in 1..Len(d) : d[j][1] = key][2]

\* one entry of the result dict and the calls made for it
Entry(key, value, cs) == [key |-> key, value |-> value, calls |-> cs]

\* the try block of the loop body and its "except Exception", for the
\* action at index i; e is what the outside answers to this action's call
HandleAction(action_name, params, i, e) ==
    CASE action_name = "buy_stock" ->
           LET sv == DictGet(params, "symbol", PyStr(<<>>))
               qv == PyIntOf(DictGet(params, "quantity", PyInt(0)))
           IN IF sv.ty # "str"
              THEN Entry(ErrorKey(action_name, i),
                         ErrorResult("AttributeError"), <<>>)
              ELSE IF ~qv.ok
              THEN Entry(ErrorKey(action_name, i),
                         ErrorResult("ValueError"), <<>>)
              ELSE IF Upper(Strip(sv.s)) = <<>>
              THEN Entry(ResultKey(action_name, i),
                         ErrorResult("Missing or invalid symbol"), <<>>)
              ELSE IF qv.n <= 0
              THEN Entry(ResultKey(action_name, i),
                         ErrorResult("Quantity must be positive"), <<>>)
              ELSE LET r == buy_stock(Upper(Strip(sv.s)), qv.n, e)
                   IN IF r.raised # "no"
                      THEN Entry(ErrorKey(action_name, i),
                                 ErrorResult(r.raised), r.calls)
                      ELSE Entry(ResultKey(action_name, i), r.result, r.calls)
      [] action_name = "get_stock_price" ->
           LET sv == DictGet(params, "symbol", PyStr(<<>>))
           IN IF sv.ty # "str"
              THEN Entry(ErrorKey(action_name, i),
                         ErrorResult("AttributeError"), <<>>)
              ELSE IF Upper(Strip(sv.s)) = <<>>
              THEN Entry(ResultKey(action_name, i),
                         ErrorResult("Missing or invalid symbol"), <<>>)
              ELSE LET r == get_stock_price(Upper(Strip(sv.s)), e)
                   IN Entry(ResultKey(action_name, i), r.result, r.calls)
      [] action_name = "get_account_info" ->
           LET r == get_account_info(e)
           IN Entry(ResultKey(action_name, i), r.result, r.calls)
      [] OTHER ->
           Entry(UnknownKey(i), ErrorResult("Unknown action"), <<>>)

\* the loop from index i on; st holds what it has done so far.  The reads
\* action["action"] and action["params"] come before the try block
RECURSIVE ExecuteFrom(_, _, _, _)
ExecuteFrom(acts, env, i, st) ==
    IF i >= Len(acts) THEN st
    ELSE LET action == acts[i + 1]
         IN IF "action" \notin DOMAIN action \/ "params" \notin DOMAIN action
            THEN [st EXCEPT !.raised = "KeyError"]
            ELSE LET h == HandleAction(action.action, action.params, i,
                                       env[i + 1])
                 IN ExecuteFrom(acts, env, i + 1,
                        [results |-> DictSet(st.results, h.key, h.value),
                         calls |-> st.calls \o h.calls,
                         raised |-> st.raised])

\* a list from its last element to its first
Reverse(s) == [k \in 1..Len(s) |-> s[Len(s) + 1 - k]]

\* execute_actions running the list from its end
execute_actions_last_first(acts, env) ==
    ExecuteFrom(Reverse(acts), Reverse(env), 0,
                [results |-> <<>>, calls |-> <<>>, raised |-> "no"])

execute_actions(acts, env) ==
    ExecuteFrom(acts, env, 0, [results |-> <<>>, calls |-> <<>>, raised |-> "no"])

---------------------------------------------------------------------------
(* The dispatcher, called on an action list                                *)

MaxActions == 2

\* Action dicts: those the extractor builds, and others a caller may hand
\* over (a value of the wrong type, a missing parameter, a missing key)
DispatchActions ==
    { BuyAction(<<"AAPL">>, 10),
      BuyAction(<<"msft">>, 2),
      BuyAction(<<>>, 1),
      BuyAction(<<SP>>, 1),
      BuyAction(<<"AAPL">>, 0),
      BuyAction(<<"AAPL">>, -1),
      [action |-> "buy_stock",
       params |-> [symbol |-> PyStr(<<"AAPL">>), quantity |-> PyStr(<<"of">>)]],
      [action |-> "buy_stock",
       params |-> [symbol |-> PyStr(<<"AAPL">>), quantity |-> PyStr(<<"2">>)]],
      [action |-> "buy_stock",
       params |-> [symbol |-> PyNone, quantity |-> PyInt(1)]],
      [action |-> "buy_stock",
       params |-> [symbol |-> PyStr(<<"AAPL">>),
                   quantity |-> PyFloat(1, <<"5">>)]],
      [action |-> "buy_stock",
       params |-> [symbol |-> PyStr(<<"AAPL">>),
                   quantity |-> PyFloat(0, <<"5">>)]],
      [action |-> "buy_stock", params |-> [symbol |-> PyStr(<<"AAPL">>)]],
      [action |-> "buy_stock", params |-> EmptyDict],
      PriceAction(<<"AAPL">>),
      PriceAction(<<>>),
      [action |-> "get_stock_price", params |-> [symbol |-> PyNone]],
      AccountAction,
      [action |-> "sell_stock",
       params |-> [symbol |-> PyStr(<<"AAPL">>), quantity |-> PyInt(1)]],
      [action |-> "get_account_info"] }

WellFormed(action) == "action" \in DOMAIN action /\ "params" \in DOMAIN action

ActionLists == UNION {[1..n -> DispatchActions] : n \in 0..MaxActions}

\* what the data client may answer to the four bar requests of one price
BarScenarios ==
    { <<"bars", "bars", "bars", "bars">>,
      <<"empty", "bars", "bars", "bars">>,
      <<"raise", "empty", "bars", "raise">>,
      <<"raise", "raise", "empty", "bars">>,
      <<"empty", "empty", "raise", "empty">>,
      <<"raise", "raise", "raise", "raise">> }

\* what the outside may answer to the call of one action
EnvFor(action) ==
    IF ~WellFormed(action) THEN {"unused"}
    ELSE CASE action.action = "buy_stock" -> {"accept", "reject"}
           [] action.action = "get_stock_price" -> BarScenarios
           [] action.action = "get_account_info" -> {"ok", "raise"}
           [] OTHER -> {"unused"}

RECURSIVE EnvSeqs(_)
EnvSeqs(acts) ==
    IF acts = <<>> THEN {<<>>}
    ELSE {<<e>> \o rest : e \in EnvFor(Head(acts)), rest \in EnvSeqs(Tail(acts))}

InitDispatch ==
    /\ entry = "broker"
    /\ call = "none"
    /\ user_input = <<>>
    /\ returned = NotReturned
    /\ response = <<>>
    /\ actions \in ActionLists
    /\ results = <<>>
    /\ calls = <<>>
    /\ raised = "no"
    /\ TraderIdle

\* execute_actions(actions): a raise leaves the caller without a result
ExecuteCall ==
    /\ entry = "broker"
    /\ call = "none"
    /\ \E env \in EnvSeqs(actions) :
          LET r == execute_actions(actions, env)
          IN /\ results' = IF r.raised = "no" THEN r.results ELSE <<>>
             /\ calls' = r.calls
             /\ raised' = r.raised
    /\ call' = "execute_actions"
    /\ UNCHANGED <<entry, user_input, returned, response, actions, traderVars>>

NextDispatch == ExecuteCall

SpecDispatch == InitDispatch /\ [][NextDispatch]_vars

---------------------------------------------------------------------------
(* Properties of the dispatcher                                            *)

Executed == call = "execute_actions"

IsBuy(action) == WellFormed(action) /\ action.action = "buy_stock"

\* the order submissions among the calls made
Submissions == SelectSeq(calls, LAMBDA c : c.op = "submit_order")

\* the result dict holds an entry made for the action at index i
Attempted(i) ==
    \E j \in 1..Len(results) :
        SubSeq(results[j][1], 3, Len(results[j][1]))
            \in {IntStr(i), IntStr(i) \o <<"_error">>}

\* C4: when execute_actions is given two buy_stock actions and the
\* brokerage accepts the first submission and fails the second, the result
\* holds exactly the keys buy_stock_0, with status success, and buy_stock_1,
\* with status error, and the only calls made on the brokerage are the two
\* submissions: the first order is not cancelled or compensated.
C4_BothOutcomesKept ==
    ( /\ Executed
      /\ Len(actions) = 2 /\ IsBuy(actions[1]) /\ IsBuy(actions[2])
      /\ Len(Submissions) = 2
      /\ Submissions[1].outcome = "accept"
      /\ Submissions[2].outcome = "reject" )
    => /\ raised = "no"
       /\ Len(results) = 2
       /\ HasKey(results, ResultKey("buy_stock", 0))
       /\ HasKey(results, ResultKey("buy_stock", 1))
       /\ ValueAt(results, ResultKey("buy_stock", 0)).status = "success"
       /\ ValueAt(results, ResultKey("buy_stock", 1)).status = "error"
       /\ calls = Submissions

C4_Witness ==
    /\ Executed
    /\ actions = <<BuyAction(<<"AAPL">>, 10), BuyAction(<<"msft">>, 2)>>
    /\ Len(calls) = 2
    /\ calls[1] = Call("submit_order", MarketOrderRequest(<<"AAPL">>, 10),
                       "accept")
    /\ calls[2] = Call("submit_order", MarketOrderRequest(<<"MSFT">>, 2),
                       "reject")
    /\ ValueAt(results, ResultKey("buy_stock", 0)).status = "success"
    /\ ValueAt(results, ResultKey("buy_stock", 1)).status = "error"

\* C5, as stated: for every action list, execute_actions does not raise,
\* and every action of the list is attempted (has its entry in the result),
\* whatever failed at the actions before it.
C5_FailureNeverAborts ==
    Executed =>
        /\ raised = "no"
        /\ \A i \in 0..(Len(actions) - 1) : Attempted(i)

---------------------------------------------------------------------------
(* AIBroker.process_instruction: the symbols of the user's text            *)
(* Here a text is a sequence of characters.                                *)

company_to_symbol ==
    { <<<<"A", "P", "P", "L", "E">>,
        <<"A", "A", "P", "L">>>>,
      <<<<"M", "I", "C", "R", "O", "S", "O", "F", "T">>,
        <<"M", "S", "F", "T">>>>,
      <<<<"A", "M", "A", "Z", "O", "N">>,
        <<"A", "M", "Z", "N">>>>,
      <<<<"G", "O", "O", "G", "L", "E">>,
        <<"G", "O", "O", "G", "L">>>>,
      <<<<"A", "L", "P", "H", "A", "B", "E", "T">>,
        <<"G", "O", "O", "G", "L">>>>,
      <<<<"T", "E", "S", "L", "A">>,
        <<"T", "S", "L", "A">>>>,
      <<<<"N", "V", "I", "D", "I", "A">>,
        <<"N", "V", "D", "A">>>>,
      <<<<"M", "E", "T", "A">>,
        <<"M", "E", "T", "A">>>>,
      <<<<"F", "A", "C", "E", "B", "O", "O", "K">>,
        <<"M", "E", "T", "A">>>>,
      <<<<"N", "E", "T", "F", "L", "I", "X">>,
        <<"N", "F", "L", "X">>>>,
      <<<<"A", "N", "A", "L", "O", "G", " ", "D", "E", "V", "I", "C", "E",
          "S">>,
        <<"A", "D", "I">>>>,
      <<<<"I", "N", "T", "E", "L">>,
        <<"I", "N", "T", "C">>>>,
      <<<<"A", "M", "D">>,
        <<"A", "M", "D">>>>,
      <<<<"A", "D", "V", "A", "N", "C", "E", "D", " ", "M", "I", "C", "R",
          "O", " ", "D", "E", "V", "I", "C", "E", "S">>,
        <<"A", "M", "D">>>>,
      <<<<"C", "O", "C", "A", " ", "C", "O", "L", "A">>,
        <<"K", "O">>>>,
      <<<<"C", "O", "C", "A", "-", "C", "O", "L", "A">>,
        <<"K", "O">>>>,
      <<<<"D", "I", "S", "N", "E", "Y">>,
        <<"D", "I", "S">>>>,
      <<<<"W", "A", "L", "T", " ", "D", "I", "S", "N", "E", "Y">>,
        <<"D", "I", "S">>>>,
      <<<<"J", "P", "M", "O", "R", "G", "A", "N">>,
        <<"J", "P", "M">>>>,
      <<<<"J", "P", " ", "M", "O", "R", "G", "A", "N">>,
        <<"J", "P", "M">>>>,
      <<<<"B", "A", "N", "K", " ", "O", "F", " ", "A", "M", "E", "R", "I",
          "C", "A">>,
        <<"B", "A", "C">>>>,
      <<<<"G", "O", "L", "D", "M", "A", "N", " ", "S", "A", "C", "H",
          "S">>,
        <<"G", "S">>>>,
      <<<<"J", "O", "H", "N", "S", "O", "N", " ", "&", " ", "J", "O", "H",
          "N", "S", "O", "N">>,
        <<"J", "N", "J">>>>,
      <<<<"J", "O", "H", "N", "S", "O", "N", " ", "A", "N", "D", " ", "J",
          "O", "H", "N", "S", "O", "N">>,
        <<"J", "N", "J">>>>,
      <<<<"V", "I", "S", "A">>,
        <<"V">>>>,
      <<<<"M", "A", "S", "T", "E", "R", "C", "A", "R", "D">>,
        <<"M", "A">>>>,
      <<<<"W", "A", "L", "M", "A", "R", "T">>,
        <<"W", "M", "T">>>>,
      <<<<"T", "A", "R", "G", "E", "T">>,
        <<"T", "G", "T">>>>,
      <<<<"C", "O", "S", "T", "C", "O">>,
        <<"C", "O", "S", "T">>>>,
      <<<<"H", "O", "M", "E", " ", "D", "E", "P", "O", "T">>,
        <<"H", "D">>>>,
      <<<<"N", "I", "K", "E">>,
        <<"N", "K", "E">>>>,
      <<<<"M", "C", "D", "O", "N", "A", "L", "D", "S">>,
        <<"M", "C", "D">>>>,
      <<<<"M", "C", "D", "O", "N", "A", "L", "D", "'", "S">>,
        <<"M", "C", "D">>>>,
      <<<<"S", "T", "A", "R", "B", "U", "C", "K", "S">>,
        <<"S", "B", "U", "X">>>>,
      <<<<"P", "F", "I", "Z", "E", "R">>,
        <<"P", "F", "E">>>>,
      <<<<"M", "O", "D", "E", "R", "N", "A">>,
        <<"M", "R", "N", "A">>>>,
      <<<<"E", "X", "X", "O", "N">>,
        <<"X", "O", "M">>>>,
      <<<<"E", "X", "X", "O", "N", "M", "O", "B", "I", "L">>,
        <<"X", "O", "M">>>>,
      <<<<"E", "X", "X", "O", "N", " ", "M", "O", "B", "I", "L">>,
        <<"X", "O", "M">>>>,
      <<<<"C", "H", "E", "V", "R", "O", "N">>,
        <<"C", "V", "X">>>>,
      <<<<"B", "O", "E", "I", "N", "G">>,
        <<"B", "A">>>>,
      <<<<"A", "M", "E", "R", "I", "C", "A", "N", " ", "A", "I", "R", "L",
          "I", "N", "E", "S">>,
        <<"A", "A", "L">>>>,
      <<<<"D", "E", "L", "T", "A">>,
        <<"D", "A", "L">>>>,
      <<<<"D", "E", "L", "T", "A", " ", "A", "I", "R", " ", "L", "I", "N",
          "E", "S">>,
        <<"D", "A", "L">>>> }

\* the words that are filtered out of the symbols
common_words ==
    { <<"I">>, <<"A">>, <<"A", "N">>, <<"T", "H", "E">>,
      <<"A", "N", "D">>, <<"O", "R">>, <<"F", "O", "R">>, <<"T", "O">>,
      <<"I", "N">>, <<"O", "F">>, <<"A", "T">>, <<"B", "Y">>,
      <<"A", "S">>, <<"I", "S">>, <<"A", "R", "E">>, <<"A", "M">>,
      <<"B", "E">>, <<"B", "E", "E", "N">>, <<"B", "E", "I", "N", "G">>,
      <<"W", "A", "S">>, <<"W", "E", "R", "E">>, <<"H", "A", "S">>,
      <<"H", "A", "V", "E">>, <<"H", "A", "D">>, <<"D", "O">>,
      <<"D", "O", "E", "S">>, <<"D", "I", "D">>, <<"C", "A", "N">>,
      <<"C", "O", "U", "L", "D">>, <<"W", "I", "L", "L">>,
      <<"W", "O", "U", "L", "D">>, <<"S", "H", "A", "L", "L">>,
      <<"S", "H", "O", "U", "L", "D">>, <<"M", "A", "Y">>,
      <<"M", "I", "G", "H", "T">>, <<"M", "U", "S", "T">>,
      <<"T", "H", "A", "T">>, <<"W", "H", "I", "C", "H">>,
      <<"W", "H", "O">>, <<"W", "H", "O", "M">>,
      <<"W", "H", "O", "S", "E">>, <<"W", "H", "A", "T">>,
      <<"P", "R", "I", "C", "E">> }

LetterChars == {UpperLetters[k] : k \in 1..26}
DecimalChars == {"0", "1", "2", "3", "4", "5", "6", "7", "8", "9"}
\* what \w matches in an upper-cased text
WordChars == LetterChars \cup DecimalChars \cup {"_"}

\* u[a..b] is a maximal run of word characters: \b holds at both its ends
\* and nowhere inside it
IsRun(u, a, b) ==
    /\ a <= b
    /\ \A k \in a..b : u[k] \in WordChars
    /\ a = 1 \/ u[a - 1] \notin WordChars
    /\ b = Len(u) \/ u[b + 1] \notin WordChars

\* the matches of \b[A-Z]{1,5}\b in u: the runs of 1 to 5 letters
TickerRuns(u) ==
    {r \in (1..Len(u)) \X (1..Len(u)) :
        /\ IsRun(u, r[1], r[2])
        /\ r[2] - r[1] + 1 <= 5
        /\ \A k \in r[1]..r[2] : u[k] \in LetterChars}

\* the matches of \$([A-Z]{1,5})\b in u: such a run that follows a "$"
DollarRuns(u) == {r \in TickerRuns(u) : r[1] > 1 /\ u[r[1] - 1] = "$"}

\* "sub in text"
Contains(text, sub) == \E i \in 1..Len(text) : OccursAt(text, sub, i)

\* the symbols of the text without the look-up of the company names
SymbolsOf_without_names(text) ==
    LET u == Upper(text)
        symbols == {SubSeq(u, r[1], r[2]) : r \in TickerRuns(u)}
        dollar_symbols == {SubSeq(u, r[1], r[2]) : r \in DollarRuns(u)}
    IN (symbols \cup dollar_symbols) \ common_words

\* the symbols of the text without the filter of the common words
SymbolsOf_unfiltered(text) ==
    LET u == Upper(text)
        symbols == {SubSeq(u, r[1], r[2]) : r \in TickerRuns(u)}
        dollar_symbols == {SubSeq(u, r[1], r[2]) : r \in DollarRuns(u)}
        named == {p[2] : p \in {p \in company_to_symbol : Contains(u, p[1])}}
    IN symbols \cup dollar_symbols \cup named

\* the symbols of the user's text; the code holds them in a list built
\* from a set, whose order is not determined
SymbolsOf(text) ==
    LET u == Upper(text)
        symbols == {SubSeq(u, r[1], r[2]) : r \in TickerRuns(u)}
        dollar_symbols == {SubSeq(u, r[1], r[2]) : r \in DollarRuns(u)}
        named == {p[2] : p \in {p \in company_to_symbol : Contains(u, p[1])}}
    IN (symbols \cup dollar_symbols \cup named) \ common_words

\* company_mapping: the rows of the table whose symbol was found
CompanyMapping(symbols) == {p \in company_to_symbol : p[2] \in symbols}

---------------------------------------------------------------------------
(* AIBroker.get_market_data                                                *)

\* the timeframes from the finest to the coarsest
market_timeframes_minute_first == <<"Minute", "Hour", "Day">>

\* [TimeFrame.Day, TimeFrame.Hour, TimeFrame.Minute]
market_timeframes == <<"Day", "Hour", "Minute">>

\* a symbol's record when a bar was found, and when none was
BarRecord(timeframe) ==
    [price |-> "close", change |-> "close - open", volume |-> "volume",
     timestamp |-> "timestamp", timeframe |-> timeframe]
NoDataRecord ==
    [price |-> "None", error |-> "No data found",
     note |-> "Stock symbol is valid and can be traded even without price data",
     tradeable |-> TRUE]

\* the loop over the timeframes from the k-th on, for one symbol; bars[k] is
\* what the data client answers to the k-th request
RECURSIVE MarketTimeframes(_, _, _, _)
MarketTimeframes(symbol, bars, k, cs) ==
    IF k > Len(market_timeframes)
    THEN [record |-> NoDataRecord, calls |-> cs]
    ELSE LET c == Call("get_stock_bars",
                       BarsRequest(symbol, market_timeframes[k], 30, 1),
                       bars[k])
         IN IF bars[k] = "bars"
            THEN [record |-> BarRecord(market_timeframes[k]),
                  calls |-> cs \o <<c>>]
            ELSE MarketTimeframes(symbol, bars, k + 1, cs \o <<c>>)

\* the loop over the symbols, left at the first symbol without a bar
RECURSIVE MarketSymbols_failfast(_, _, _)
MarketSymbols_failfast(symbols, bars, st) ==
    IF symbols = <<>> THEN st
    ELSE LET symbol == Head(symbols)
             m == MarketTimeframes(symbol, bars[symbol], 1, <<>>)
         IN IF m.record = NoDataRecord
            THEN [market_data |-> st.market_data,
                  calls |-> st.calls \o m.calls]
            ELSE MarketSymbols_failfast(Tail(symbols), bars,
                    [market_data |-> DictSet(st.market_data, symbol, m.record),
                     calls |-> st.calls \o m.calls])

\* the loop over the symbols
RECURSIVE MarketSymbols(_, _, _)
MarketSymbols(symbols, bars, st) ==
    IF symbols = <<>> THEN st
    ELSE LET symbol == Head(symbols)
             m == MarketTimeframes(symbol, bars[symbol], 1, <<>>)
         IN MarketSymbols(Tail(symbols), bars,
                [market_data |-> DictSet(st.market_data, symbol, m.record),
                 calls |-> st.calls \o m.calls])

\* account: what the trading client answers to get_account
get_market_data(symbols, bars, account) ==
    LET st == MarketSymbols(symbols, bars,
                            [market_data |-> <<>>, calls |-> <<>>])
        c == Call("get_account", EmptyDict, account)
        snapshot == IF account = "ok"
                    THEN [equity |-> "equity", cash |-> "cash",
                          buying_power |-> "buying_power",
                          status |-> "ACTIVE"]
                    ELSE [error |-> "APIError"]
    IN [market_data |-> DictSet(st.market_data, <<"account">>, snapshot),
        calls |-> st.calls \o <<c>>]

---------------------------------------------------------------------------
(* AIBroker.process_instruction                                            *)

\* the formatted error message of the outermost handler
ErrorBlock(exc) ==
    Returned("error_block",
             <<"<broker_response>", NL, "<error>", NL,
               "An error occurred while processing your request: ", exc, NL,
               "</error>", NL, "</broker_response>">>,
             <<>>, <<>>)

\* what the completion client may answer
LlmRaises == [kind |-> "raise", text |-> <<>>]
LlmNoContent == [kind |-> "no_content", text |-> <<>>]
LlmText(text) == [kind |-> "text", text |-> text]

\* the completion call repeated once when it fails
messages_create_retry(prompt, llm) ==
    LET c == Call("messages.create", prompt, llm.kind)
    IN CASE llm.kind = "raise" ->
              [raised |-> "APIError", text |-> <<>>, calls |-> <<c, c>>]
         [] llm.kind = "no_content" ->
              [raised |-> "IndexError", text |-> <<>>, calls |-> <<c>>]
         [] OTHER -> [raised |-> "no", text |-> llm.text, calls |-> <<c>>]

\* self.claude_client.messages.create(...) and message.content[0].text
messages_create(prompt, llm) ==
    LET c == Call("messages.create", prompt, llm.kind)
    IN CASE llm.kind = "raise" ->
              [raised |-> "APIError", text |-> <<>>, calls |-> <<c>>]
         [] llm.kind = "no_content" ->
              [raised |-> "IndexError", text |-> <<>>, calls |-> <<c>>]
         [] OTHER -> [raised |-> "no", text |-> llm.text, calls |-> <<c>>]

\* what process_instruction has done when it returns
Processed(ret, text, acts, res, cs) ==
    [returned |-> ret, response |-> text, actions |-> acts, results |-> res,
     calls |-> cs]

\* the end of process_instruction: the response with the actual results
WithResults(cs, text, acts, r) ==
    IF r.raised # "no"
    THEN Processed(ErrorBlock(r.raised), text, acts, <<>>, cs \o r.calls)
    ELSE Processed(Returned("full_response",
                            text \o <<NL, NL, "<actual_results>", NL>>,
                            r.results, <<NL, "</actual_results>">>),
                   text, acts, r.results, cs \o r.calls)

\* the results appended whether or not an action was extracted
Dispatch_always_results(cs, text, acts, env) ==
    WithResults(cs, text, acts, execute_actions(acts, env))

\* "if actions: ... else: return claude_response"
Dispatch(cs, text, acts, env) ==
    IF acts = <<>>
    THEN Processed(Returned("claude_response", text, <<>>, <<>>), text, acts,
                   <<>>, cs)
    ELSE WithResults(cs, text, acts, execute_actions(acts, env))

\* what follows the completion call without the outermost handler: the
\* exception leaves process_instruction, nothing is returned
AfterCompletion_unhandled(cs, m, env) ==
    IF m.raised # "no"
    THEN Processed(NotReturned, <<>>, <<>>, <<>>, cs \o m.calls)
    ELSE Dispatch(cs \o m.calls, m.text,
                  extract_action_from_response(m.text), env)

\* what follows the completion call m; an exception goes to the outermost
\* handler
AfterCompletion(cs, m, env) ==
    IF m.raised # "no"
    THEN Processed(ErrorBlock(m.raised), <<>>, <<>>, <<>>, cs \o m.calls)
    ELSE Dispatch(cs \o m.calls, m.text,
                  extract_action_from_response(m.text), env)

\* the prompt: the market data, the company mapping and the user's text
Prompt(text, symbols, market_data) ==
    [market_data |-> market_data,
     company_mapping |->
         CompanyMapping({symbols[k] : k \in 1..Len(symbols)}),
     user_input |-> text]

\* what follows get_market_data
AfterMarketData(text, symbols, md, llm, env) ==
    AfterCompletion(md.calls,
                    messages_create(Prompt(text, symbols, md.market_data),
                                    llm),
                    env)

\* symbols: the symbols of the text in the order of the list; bars, account,
\* llm, env: what the data client, the trading client, the completion
\* client and the brokerage answer
process_instruction(text, symbols, bars, account, llm, env) ==
    AfterMarketData(text, symbols, get_market_data(symbols, bars, account),
                    llm, env)

---------------------------------------------------------------------------
(* The broker, called on an instruction                                    *)

\* "Buy 10 shares of Apple"
BuyApple ==
    <<"B", "u", "y", " ", "1", "0", " ", "s", "h", "a", "r", "e", "s",
      " ", "o", "f", " ", "A", "p", "p", "l", "e">>
\* "buy 1 AAPL"
BuyTicker ==
    <<"b", "u", "y", " ", "1", " ", "A", "A", "P", "L">>
\* "price of $tsla"
DollarTicker ==
    <<"p", "r", "i", "c", "e", " ", "o", "f", " ", "$", "t", "s", "l",
      "a">>
\* "MSFT or AAPL"
TwoTickers ==
    <<"M", "S", "F", "T", " ", "o", "r", " ", "A", "A", "P", "L">>
\* ""
NoText == <<>>
\* "pineapple"
Pineapple ==
    <<"p", "i", "n", "e", "a", "p", "p", "l", "e">>
\* "what is the price"
StopWords ==
    <<"w", "h", "a", "t", " ", "i", "s", " ", "t", "h", "e", " ", "p",
      "r", "i", "c", "e">>
\* "Visa"
Visa ==
    <<"V", "i", "s", "a">>
\* "$google?"
LongDollar ==
    <<"$", "g", "o", "o", "g", "l", "e", "?">>
\* "bank of america"
BankOfAmerica ==
    <<"b", "a", "n", "k", " ", "o", "f", " ", "a", "m", "e", "r", "i",
      "c", "a">>
\* "a1 $TSLA2 x_y amd"
Mixed ==
    <<"a", "1", " ", "$", "T", "S", "L", "A", "2", " ", "x", "_", "y",
      " ", "a", "m", "d">>

UserInputs ==
    { BuyApple, BuyTicker, DollarTicker, TwoTickers, NoText, Pineapple,
      StopWords, Visa, LongDollar, BankOfAmerica, Mixed }

\* what the data client may answer to the three bar requests of one symbol
MarketScenarios ==
    { <<"bars", "bars", "bars">>,
      <<"empty", "bars", "raise">>,
      <<"raise", "empty", "empty">> }

\* what the completion client may answer
Completions ==
    { Block(<<BuyLine("positional", DQ, "AAPL", 10)>>),
      Block(<<BuyLine("positional", DQ, "AAPL", 10),
              BuyLine("shares_of", "none", "MSFT", 2)>>),
      Block(<<AccountLine>>),
      Block(<<BuyLine("shares_of", "none", "MSFT", 0)>>),
      <<"Buy", SP, "AAPL", ".", NL>>,
      <<>> }
LlmOutcomes == {LlmRaises, LlmNoContent} \cup {LlmText(t) : t \in Completions}

\* the orders in which a list may hold the elements of a set
Orders(S) ==
    {f \in [1..Cardinality(S) -> S] :
        \A i, j \in 1..Cardinality(S) : i # j => f[i] # f[j]}

InitProcess ==
    /\ entry = "broker"
    /\ call = "none"
    /\ user_input \in UserInputs
    /\ returned = NotReturned
    /\ response = <<>>
    /\ actions = <<>>
    /\ results = <<>>
    /\ calls = <<>>
    /\ raised = "no"
    /\ TraderIdle

ProcessCall ==
    /\ entry = "broker"
    /\ call = "none"
    /\ \E symbols \in Orders(SymbolsOf(user_input)),
          bars \in [SymbolsOf(user_input) -> MarketScenarios],
          account \in {"ok", "raise"},
          llm \in LlmOutcomes :
          \E env \in EnvSeqs(IF llm.kind = "text"
                             THEN extract_action_from_response(llm.text)
                             ELSE <<>>) :
             LET p == process_instruction(user_input, symbols, bars, account,
                                          llm, env)
             IN /\ returned' = p.returned
                /\ response' = p.response
                /\ actions' = p.actions
                /\ results' = p.results
                /\ calls' = p.calls
    /\ call' = "process_instruction"
    /\ raised' = "no"
    /\ UNCHANGED <<entry, user_input, traderVars>>

NextProcess == ProcessCall

SpecProcess == InitProcess /\ [][NextProcess]_vars

---------------------------------------------------------------------------
(* Properties of process_instruction                                       *)

ProcessedInstruction == call = "process_instruction"

\* the completion calls among the calls made
Completion == SelectSeq(calls, LAMBDA c : c.op = "messages.create")

\* C10: when the completion call of process_instruction fails, the call
\* was made exactly once, it is the last call made on any client (nothing
\* is dispatched, no order is submitted), no action was extracted, no
\* result was recorded, and the returned value is the formatted
\* <broker_response><error> block.
C10_LlmFailureAborts ==
    ( /\ ProcessedInstruction
      /\ \E k \in 1..Len(calls) :
            calls[k].op = "messages.create" /\ calls[k].outcome = "raise" )
    => /\ Len(Completion) = 1
       /\ calls[Len(calls)].op = "messages.create"
       /\ Submissions = <<>>
       /\ actions = <<>>
       /\ results = <<>>
       /\ returned = ErrorBlock("APIError")
       /\ raised = "no"

C10_Witness ==
    /\ ProcessedInstruction
    /\ user_input = BuyApple
    /\ Len(calls) > 1
    /\ calls[1].op = "get_stock_bars"
    /\ calls[Len(calls)].op = "messages.create"
    /\ calls[Len(calls)].outcome = "raise"
    /\ returned.kind = "error_block"
    /\ Head(returned.head) = "<broker_response>"
    /\ returned.head[3] = "<error>"

\* the calls made that failed: a request for bars, the account snapshot,
\* the completion, an order
FailedCalls ==
    SelectSeq(calls, LAMBDA c : c.outcome \in {"raise", "no_content", "reject"})

\* C11: process_instruction always returns a string: the response of the
\* completion, the response with the actual results, or the formatted error
\* block; it never leaves without a value.  A failure of the market data or
\* of a dispatched action does not change that, and a completion call that
\* raises, or that comes back without content, ends in the error block of
\* the outermost handler, which names the exception.
C11_AlwaysReturnsString ==
    ProcessedInstruction =>
        /\ raised = "no"
        /\ returned.kind \in {"claude_response", "full_response",
                              "error_block"}
        /\ \A k \in 1..Len(Completion) :
              /\ Completion[k].outcome = "raise"
                    => returned = ErrorBlock("APIError")
              /\ Completion[k].outcome = "no_content"
                    => returned = ErrorBlock("IndexError")
              /\ Completion[k].outcome = "text"
                    => returned.kind \in {"claude_response", "full_response"}

\* the bars and the account snapshot failed, then the completion came back
\* without content: the error block is returned
C11_Witness ==
    /\ ProcessedInstruction
    /\ Len(FailedCalls) > 2
    /\ FailedCalls[1].op = "get_stock_bars"
    /\ \E k \in 1..Len(calls) :
          calls[k].op = "get_account" /\ calls[k].outcome = "raise"
    /\ calls[Len(calls)].outcome = "no_content"
    /\ returned = ErrorBlock("IndexError")

\* the market data that went into the prompt of the completion call
MarketDataOf == Completion[1].req.market_data

\* the symbols that process_instruction resolved from the user's text: those
\* it fetched market data for
Resolved ==
    {MarketDataOf[j][1] : j \in 1..Len(MarketDataOf)} \ {<<"account">>}

\* the first request for the bars of each symbol
DayRequests ==
    SelectSeq(calls, LAMBDA c : c.op = "get_stock_bars"
                                    /\ c.req.timeframe = "Day")

\* C12: when the upper-cased user text contains a company name of the
\* table, the resolved symbols contain the ticker of that name, unless the
\* ticker is a common word; each resolved symbol is upper-case, and no
\* symbol is resolved (and fetched) twice.
C12_CompanyNameResolved ==
    ProcessedInstruction =>
        /\ \A p \in company_to_symbol :
              (Contains(Upper(user_input), p[1]) /\ p[2] \notin common_words)
                  => p[2] \in Resolved
        /\ \A x \in Resolved : \A k \in 1..Len(x) : x[k] \in LetterChars
        /\ \A i, j \in 1..Len(DayRequests) :
              i # j => DayRequests[i].req.symbol # DayRequests[j].req.symbol

\* "pineapple" holds no ticker-shaped word of its own: AAPL comes from the
\* company name APPLE inside it
C12_Witness ==
    /\ ProcessedInstruction
    /\ user_input = Pineapple
    /\ Resolved = {<<"A", "A", "P", "L">>}
    /\ Len(DayRequests) = 1

\* the three sets the resolver unites, for the upper-cased text u
BareTokens(u) == {SubSeq(u, r[1], r[2]) : r \in TickerRuns(u)}
DollarTokens(u) == {SubSeq(u, r[1], r[2]) : r \in DollarRuns(u)}
TableSymbols(u) == {p[2] : p \in {q \in company_to_symbol : Contains(u, q[1])}}

\* C13: no common word is among the resolved symbols, whichever way it came
\* in; the resolved symbols are the bare tokens, the $-tokens and the
\* symbols of the company names found, without the common words.
C13_StoplistRemoved ==
    ProcessedInstruction =>
        /\ Resolved \cap common_words = {}
        /\ Resolved = (BareTokens(Upper(user_input))
                          \cup DollarTokens(Upper(user_input))
                          \cup TableSymbols(Upper(user_input)))
                      \ common_words

\* "Buy 10 shares of Apple": BUY, APPLE and AAPL are resolved, OF is not
C13_Witness ==
    /\ ProcessedInstruction
    /\ user_input = BuyApple
    /\ <<"O", "F">> \in BareTokens(Upper(user_input))
    /\ <<"O", "F">> \notin Resolved
    /\ Resolved = {<<"B", "U", "Y">>, <<"A", "P", "P", "L", "E">>,
                   <<"A", "A", "P", "L">>}

---------------------------------------------------------------------------
(* ConfigManager, AccountManager (core/account.py)                         *)

PAPER == "https://paper-api.alpaca.markets"
LIVE == "https://api.alpaca.markets"

\* bool(v) of a Python value that is None or a string; a ciphertext is a
\* string of base64 characters
Truthy(v) == v.ty \in {"str", "cipher"} /\ v.s # <<>>

\* the text without the line break that "$" lets a match end before
BeforeDollar(s) ==
    IF s # <<>> /\ s[Len(s)] = NL THEN SubSeq(s, 1, Len(s) - 1) ELSE s

\* [A-Z0-9] and [a-zA-Z0-9]
UpperAlnum == LetterChars \cup DecimalChars
Alnum == UpperAlnum \cup {LowerLetters[k] : k \in 1..26}

\* re.match(r'^[A-Z0-9]{12,}$', api_key)
KeyFormat(s) ==
    /\ Len(BeforeDollar(s)) >= 12
    /\ \A k \in 1..Len(BeforeDollar(s)) : BeforeDollar(s)[k] \in UpperAlnum

\* re.match(r'^[a-zA-Z0-9]{32,}$', api_secret)
SecretFormat(s) ==
    /\ Len(BeforeDollar(s)) >= 32
    /\ \A k \in 1..Len(BeforeDollar(s)) : BeforeDollar(s)[k] \in Alnum

\* _encrypt_value: base64(iv + AES-CBC(key, iv, pad(value))), a string that
\* differs from the value.  s is the text that was encrypted first and n
\* the number of encryptions laid over that one: the ciphertext of a
\* ciphertext is a ciphertext again
Encrypted(v) ==
    [ty |-> "cipher", s |-> v.s, n |-> IF v.ty = "cipher" THEN v.n + 1 ELSE 0]

\* _decrypt_value that gives None for everything
Decrypted_failing(v) == PyNone

\* _decrypt_value with the key that encrypted: one encryption is taken
\* off; what is no ciphertext does not decode or unpad, and the except
\* clause turns that into None
Decrypted(v) ==
    IF v.ty # "cipher" THEN PyNone
    ELSE IF v.n = 0 THEN PyStr(v.s)
    ELSE [v EXCEPT !.n = v.n - 1]

\* 'https://paper-api.alpaca.markets' if paper_trading else
\* 'https://api.alpaca.markets'
BaseUrl(paper_trading) == PyStr(<<IF paper_trading THEN PAPER ELSE LIVE>>)

\* save_config, the section self.config holds after it: self.config.copy()
\* copies one level deep, data_to_save["alpaca"] is the dict that
\* self.config["alpaca"] is, and the two values are encrypted in it
save_config(cfg) ==
    Credentials(IF Truthy(cfg.api_key) THEN Encrypted(cfg.api_key)
                ELSE cfg.api_key,
                IF Truthy(cfg.api_secret) THEN Encrypted(cfg.api_secret)
                ELSE cfg.api_secret,
                cfg.base_url)

\* save_config that writes the values as they are
Saved_plaintext(cfg) == cfg

\* json.dump(data_to_save): the section that goes to the file, with the
\* values encrypted; it is the dict that self.config holds after the call
Saved(cfg) ==
    Credentials(IF Truthy(cfg.api_key) THEN Encrypted(cfg.api_key)
                ELSE cfg.api_key,
                IF Truthy(cfg.api_secret) THEN Encrypted(cfg.api_secret)
                ELSE cfg.api_secret,
                cfg.base_url)

\* load_config: the section of the file with the two values decrypted
load_config(file) ==
    Credentials(IF Truthy(file.api_key) THEN Decrypted(file.api_key)
                ELSE file.api_key,
                IF Truthy(file.api_secret) THEN Decrypted(file.api_secret)
                ELSE file.api_secret,
                file.base_url)

\* get_alpaca_credentials: (None, None, None) without a section, else the
\* key, the secret and the base URL, the paper URL where there is none
get_alpaca_credentials(cfg) ==
    IF cfg = NoCredentials THEN NoCredentials
    ELSE Credentials(cfg.api_key, cfg.api_secret,
                     IF cfg.base_url = PyNone THEN PyStr(<<PAPER>>)
                     ELSE cfg.base_url)

\* set_alpaca_credentials: the section self.config holds after the values
\* were set and save_config ran
set_alpaca_credentials(api_key, api_secret, paper_trading) ==
    save_config(Credentials(api_key, api_secret, BaseUrl(paper_trading)))

\* is_configured with the check left out
is_configured_always(am) == TRUE

is_configured(am) ==
    Truthy(am.api_key) /\ Truthy(am.api_secret) /\ Truthy(am.base_url)

\* one HTTP request: the method, the URL, the headers and the body, and
\* what comes back: a status code, "bad_json" (status 200 and a body that
\* is no JSON) or "exception" (requests raises)
HttpCall(method, url, creds, body, http) ==
    Call(method,
         [url |-> url, key |-> creds.api_key, secret |-> creds.api_secret,
          body |-> body],
         http)

\* _test_api_keys: one GET of the account
test_api_keys(api_key, api_secret, paper_trading, http) ==
    [ok |-> http = "200",
     calls |-> <<HttpCall("GET",
                          BaseUrl(paper_trading).s \o <<"/v2/account">>,
                          Credentials(api_key, api_secret,
                                      BaseUrl(paper_trading)),
                          EmptyDict, http)>>]

\* what configure_account does: its return value, the credentials of the
\* manager and the config section after it, and the requests it made
Configured(ok, am, cfg, cs) ==
    [ok |-> ok, account_manager |-> am, config |-> cfg, calls |-> cs]

\* configure_account saving and taking over the credentials before any
\* check
configure_account_save_first(am, cfg, api_key, api_secret, paper_trading, http) ==
    LET t == test_api_keys(api_key, api_secret, paper_trading, http)
    IN Configured(Truthy(api_key) /\ KeyFormat(api_key.s)
                      /\ Truthy(api_secret) /\ SecretFormat(api_secret.s)
                      /\ t.ok,
                  Credentials(api_key, api_secret, BaseUrl(paper_trading)),
                  set_alpaca_credentials(api_key, api_secret, paper_trading),
                  t.calls)

configure_account(am, cfg, api_key, api_secret, paper_trading, http) ==
    IF ~Truthy(api_key) \/ ~KeyFormat(api_key.s)
    THEN Configured(FALSE, am, cfg, <<>>)
    ELSE IF ~Truthy(api_secret) \/ ~SecretFormat(api_secret.s)
    THEN Configured(FALSE, am, cfg, <<>>)
    ELSE LET t == test_api_keys(api_key, api_secret, paper_trading, http)
         IN IF ~t.ok THEN Configured(FALSE, am, cfg, t.calls)
            ELSE Configured(TRUE,
                            Credentials(api_key, api_secret,
                                        BaseUrl(paper_trading)),
                            set_alpaca_credentials(api_key, api_secret,
                                                   paper_trading),
                            t.calls)

---------------------------------------------------------------------------
(* AlpacaClient (core/client.py)                                           *)

\* AlpacaClient(): the credentials are copied from the account manager,
\* and the endpoint URLs are set only "if self.base_url"
AlpacaClient(am) ==
    [created |-> TRUE, api_key |-> am.api_key, api_secret |-> am.api_secret,
     base_url |-> am.base_url, urls |-> Truthy(am.base_url)]

get_alpaca_client(c, am) == IF c.created THEN c ELSE AlpacaClient(am)

\* what a client method returns
RetNone == Returned("None", <<>>, <<>>, <<>>)
RetFalse == Returned("False", <<>>, <<>>, <<>>)
RetTrue == Returned("True", <<>>, <<>>, <<>>)
RetJson == Returned("json", <<>>, <<>>, <<>>)

\* what a client method does: its return value, the requests it made, the
\* exception it raised ("no": none)
Gw(ret, cs, exc) == [returned |-> ret, calls |-> cs, raised |-> exc]

account_url(c) == c.base_url.s \o <<"/v2/account">>
orders_url(c) == c.base_url.s \o <<"/v2/orders">>
positions_url(c) == c.base_url.s \o <<"/v2/positions">>

\* a client without its URLs raises AttributeError where it reads one: in
\* get_account that is inside the try block
get_account(c, am, http) ==
    IF ~is_configured(am) THEN Gw(RetNone, <<>>, "no")
    ELSE IF ~c.urls THEN Gw(RetNone, <<>>, "no")
    ELSE Gw(IF http = "200" THEN RetJson ELSE RetNone,
            <<HttpCall("GET", account_url(c), c, EmptyDict, http)>>, "no")

get_positions(c, am, http) ==
    IF ~is_configured(am) THEN Gw(RetNone, <<>>, "no")
    ELSE IF ~c.urls THEN Gw(RetNone, <<>>, "no")
    ELSE Gw(IF http = "200" THEN RetJson ELSE RetNone,
            <<HttpCall("GET", positions_url(c), c, EmptyDict, http)>>, "no")

\* url = f"{self.positions_url}/{symbol}" stands before the try block
get_position(c, am, symbol, http) ==
    IF ~is_configured(am) THEN Gw(RetNone, <<>>, "no")
    ELSE IF ~c.urls THEN Gw(NotReturned, <<>>, "AttributeError")
    ELSE Gw(IF http = "200" THEN RetJson ELSE RetNone,
            <<HttpCall("GET", positions_url(c) \o <<"/", symbol>>, c,
                       EmptyDict, http)>>, "no")

get_orders(c, am, http) ==
    IF ~is_configured(am) THEN Gw(RetNone, <<>>, "no")
    ELSE IF ~c.urls THEN Gw(RetNone, <<>>, "no")
    ELSE Gw(IF http = "200" THEN RetJson ELSE RetNone,
            <<HttpCall("GET", orders_url(c), c, [limit |-> 50], http)>>,
            "no")

\* url = f"{self.orders_url}/{order_id}" stands before the try block
get_order(c, am, order_id, http) ==
    IF ~is_configured(am) THEN Gw(RetNone, <<>>, "no")
    ELSE IF ~c.urls THEN Gw(NotReturned, <<>>, "AttributeError")
    ELSE Gw(IF http = "200" THEN RetJson ELSE RetNone,
            <<HttpCall("GET", orders_url(c) \o <<"/", order_id>>, c,
                       EmptyDict, http)>>, "no")

submit_order(c, am, order_data, http) ==
    IF ~is_configured(am) THEN Gw(RetNone, <<>>, "no")
    ELSE IF ~c.urls THEN Gw(RetNone, <<>>, "no")
    ELSE Gw(IF http \in {"200", "201"} THEN RetJson ELSE RetNone,
            <<HttpCall("POST", orders_url(c), c, order_data, http)>>, "no")

\* url = f"{self.orders_url}/{order_id}" stands before the try block
cancel_order(c, am, order_id, http) ==
    IF ~is_configured(am) THEN Gw(RetFalse, <<>>, "no")
    ELSE IF ~c.urls THEN Gw(NotReturned, <<>>, "AttributeError")
    ELSE Gw(IF http = "204" THEN RetTrue ELSE RetFalse,
            <<HttpCall("DELETE", orders_url(c) \o <<"/", order_id>>, c,
                       EmptyDict, http)>>, "no")

cancel_all_orders(c, am, http) ==
    IF ~is_configured(am) THEN Gw(RetFalse, <<>>, "no")
    ELSE IF ~c.urls THEN Gw(RetFalse, <<>>, "no")
    ELSE Gw(IF http = "207" THEN RetTrue ELSE RetFalse,
            <<HttpCall("DELETE", orders_url(c), c, EmptyDict, http)>>, "no")

---------------------------------------------------------------------------
(* OrderManager (core/orders.py)                                           *)

\* the dict d with d[key] = value
WithKey(d, key, value) ==
    [k \in DOMAIN d \cup {key} |-> IF k = key THEN value ELSE d[k]]

\* float(v) <= 0 of a number
NotPositive(v) == v.ty = "int" /\ v.n <= 0

\* "not price or float(price) <= 0"
BadPrice(price) == price = PyNone \/ NotPositive(price)

\* str(v) of a number or of None
PyStrOf(v) == IF v = PyNone THEN PyStr(<<"None">>) ELSE PyStr(IntStr(v.n))

\* "if extended_hours: order['extended_hours'] = True"
WithExtendedHours(order, extended_hours) ==
    IF extended_hours THEN WithKey(order, "extended_hours", TRUE) ELSE order

\* validate_order_parameters without the check that one and only one of
\* qty and notional is given
validate_order_parameters_either(symbol, qty, notional) ==
    /\ symbol # <<>>
    /\ ~(qty # PyNone /\ NotPositive(qty))
    /\ ~(notional # PyNone /\ NotPositive(notional))

validate_order_parameters(symbol, qty, notional) ==
    /\ symbol # <<>>
    /\ ~((qty = PyNone /\ notional = PyNone)
         \/ (qty # PyNone /\ notional # PyNone))
    /\ ~(qty # PyNone /\ NotPositive(qty))
    /\ ~(notional # PyNone /\ NotPositive(notional))

\* the order dict that is None when the parameters are not valid
NoOrder == [none |-> TRUE]

prepare_order_base(symbol, side, qty, notional, time_in_force) ==
    IF ~validate_order_parameters(symbol, qty, notional) THEN NoOrder
    ELSE LET order == [symbol |-> Upper(symbol), side |-> side,
                       time_in_force |-> time_in_force]
         IN IF qty # PyNone THEN WithKey(order, "qty", PyStrOf(qty))
            ELSE WithKey(order, "notional", PyStrOf(notional))

\* c, am, http: the client, the account manager and what the brokerage
\* answers
market_order(c, am, symbol, side, qty, notional, extended_hours, http) ==
    LET order == prepare_order_base(symbol, side, qty, notional, "day")
    IN IF order = NoOrder THEN Gw(RetNone, <<>>, "no")
       ELSE submit_order(c, am,
                WithExtendedHours(WithKey(order, "type", "market"),
                                  extended_hours),
                http)

limit_order(c, am, symbol, side, limit_price, qty, notional, extended_hours, http) ==
    LET order == prepare_order_base(symbol, side, qty, notional, "day")
    IN IF order = NoOrder THEN Gw(RetNone, <<>>, "no")
       ELSE IF BadPrice(limit_price) THEN Gw(RetNone, <<>>, "no")
       ELSE submit_order(c, am,
                WithExtendedHours(
                    WithKey(WithKey(order, "type", "limit"),
                            "limit_price", PyStrOf(limit_price)),
                    extended_hours),
                http)

stop_order(c, am, symbol, side, stop_price, qty, notional, http) ==
    LET order == prepare_order_base(symbol, side, qty, notional, "day")
    IN IF order = NoOrder THEN Gw(RetNone, <<>>, "no")
       ELSE IF BadPrice(stop_price) THEN Gw(RetNone, <<>>, "no")
       ELSE submit_order(c, am,
                WithKey(WithKey(order, "type", "stop"),
                        "stop_price", PyStrOf(stop_price)),
                http)

stop_limit_order(c, am, symbol, side, stop_price, limit_price, qty, notional, http) ==
    LET order == prepare_order_base(symbol, side, qty, notional, "day")
    IN IF order = NoOrder THEN Gw(RetNone, <<>>, "no")
       ELSE IF BadPrice(stop_price) THEN Gw(RetNone, <<>>, "no")
       ELSE IF BadPrice(limit_price) THEN Gw(RetNone, <<>>, "no")
       ELSE submit_order(c, am,
                WithKey(WithKey(WithKey(order, "type", "stop_limit"),
                                "stop_price", PyStrOf(stop_price)),
                        "limit_price", PyStrOf(limit_price)),
                http)

---------------------------------------------------------------------------
(* OfficialOrderManager (official/orders.py)                               *)

\* _validate_basic_params: the validated side, "None" when the parameters
\* are rejected; side is a string
validate_basic_params(symbol, side, qty, notional) ==
    IF symbol = <<>> THEN "None"
    ELSE IF (qty = PyNone /\ notional = PyNone)
            \/ (qty # PyNone /\ notional # PyNone)
    THEN "None"
    ELSE IF UpperTok(side) = "BUY" THEN "buy"
    ELSE IF UpperTok(side) = "SELL" THEN "sell"
    ELSE "None"

\* the try block of the four order methods: the request is built from
\* self.trading_client.submit_order(request): a call made on the client tc
ClientCallOf(tc, c) ==
    [op |-> c.op, req |-> c.req, outcome |-> c.outcome, client |-> tc]

\* order_data, with qty or notional added, and submitted.  sdk: "invalid"
\* (the request class rejects the data), "accept" or "reject"
SubmitRequest(tc, order_data, qty, notional, sdk) ==
    LET request == IF qty # PyNone THEN WithKey(order_data, "qty", qty)
                   ELSE WithKey(order_data, "notional", notional)
    IN IF sdk = "invalid" THEN Gw(RetNone, <<>>, "no")
       ELSE Gw(IF sdk = "accept" THEN RetJson ELSE RetNone,
               <<ClientCallOf(tc, Call("submit_order", request, sdk))>>,
               "no")

\* tc: the trading client the manager holds, None when there is none
official_market_order(tc, symbol, side, qty, notional, extended_hours, sdk) ==
    IF tc = PyNone THEN Gw(RetNone, <<>>, "no")
    ELSE IF validate_basic_params(symbol, side, qty, notional) = "None"
    THEN Gw(RetNone, <<>>, "no")
    ELSE SubmitRequest(tc,
             [symbol |-> Upper(symbol),
              side |-> validate_basic_params(symbol, side, qty, notional),
              time_in_force |-> "day", extended_hours |-> extended_hours],
             qty, notional, sdk)

official_limit_order(tc, symbol, side, limit_price, qty, notional, extended_hours, sdk) ==
    IF tc = PyNone THEN Gw(RetNone, <<>>, "no")
    ELSE IF validate_basic_params(symbol, side, qty, notional) = "None"
    THEN Gw(RetNone, <<>>, "no")
    ELSE IF BadPrice(limit_price) THEN Gw(RetNone, <<>>, "no")
    ELSE SubmitRequest(tc,
             [symbol |-> Upper(symbol),
              side |-> validate_basic_params(symbol, side, qty, notional),
              limit_price |-> limit_price,
              time_in_force |-> "day", extended_hours |-> extended_hours],
             qty, notional, sdk)

official_stop_order(tc, symbol, side, stop_price, qty, notional, sdk) ==
    IF tc = PyNone THEN Gw(RetNone, <<>>, "no")
    ELSE IF validate_basic_params(symbol, side, qty, notional) = "None"
    THEN Gw(RetNone, <<>>, "no")
    ELSE IF BadPrice(stop_price) THEN Gw(RetNone, <<>>, "no")
    ELSE SubmitRequest(tc,
             [symbol |-> Upper(symbol),
              side |-> validate_basic_params(symbol, side, qty, notional),
              stop_price |-> stop_price, time_in_force |-> "day"],
             qty, notional, sdk)

official_stop_limit_order(tc, symbol, side, stop_price, limit_price, qty, notional, sdk) ==
    IF tc = PyNone THEN Gw(RetNone, <<>>, "no")
    ELSE IF validate_basic_params(symbol, side, qty, notional) = "None"
    THEN Gw(RetNone, <<>>, "no")
    ELSE IF BadPrice(stop_price) THEN Gw(RetNone, <<>>, "no")
    ELSE IF BadPrice(limit_price) THEN Gw(RetNone, <<>>, "no")
    ELSE SubmitRequest(tc,
             [symbol |-> Upper(symbol),
              side |-> validate_basic_params(symbol, side, qty, notional),
              stop_price |-> stop_price, limit_price |-> limit_price,
              time_in_force |-> "day"],
             qty, notional, sdk)

---------------------------------------------------------------------------
(* main.py: get_quantity_or_notional                                       *)

\* answer: what is entered at "(q/n)"; number: the first number entered
\* that is above 0 (the prompt is repeated until there is one)
get_quantity_or_notional(answer, number) ==
    IF answer = "q" THEN <<PyInt(number), PyNone>>
    ELSE <<PyNone, PyInt(number)>>

---------------------------------------------------------------------------
(* The trader (main.py): the account manager, the client, the orders       *)

\* "PKABCDEFGH12"
Key12 == <<"P", "K", "A", "B", "C", "D", "E", "F", "G", "H", "1", "2">>
\* 32 letters and digits
Secret32 == [k \in 1..32 |-> IF k % 2 = 0 THEN "a" ELSE "7"]

\* keys and secrets a caller may hand to configure_account
ApiKeys ==
    { PyNone, PyStr(Key12), PyStr(SubSeq(Key12, 1, 11)),
      PyStr([k \in 1..12 |-> "k"]), PyStr(Key12 \o <<"-">>),
      PyStr(Key12 \o <<NL>>) }
ApiSecrets ==
    { PyNone, PyStr(Secret32), PyStr(SubSeq(Secret32, 1, 31)),
      PyStr(Secret32 \o <<"!">>) }

HttpOutcomes ==
    {"200", "201", "204", "207", "404", "bad_json", "exception"}

\* (api_key, api_secret, paper_trading, http): the calls of
\* configure_account.  Every key with the secret that is well formed, every
\* secret with the key that is, and for the well-formed pairs both
\* environments and every answer of the brokerage
ConfigureInputs ==
    {<<k, PyStr(Secret32), TRUE, "200">> : k \in ApiKeys}
        \cup {<<PyStr(Key12), x, TRUE, "200">> : x \in ApiSecrets}
        \cup {<<PyStr(Key12), PyStr(Secret32), paper_trading, http>> :
                 paper_trading \in BOOLEAN, http \in HttpOutcomes}
        \cup {<<PyStr(Key12 \o <<NL>>), PyStr(Secret32), FALSE, http>> :
                 http \in {"200", "exception"}}

\* what the config file may hold when the program starts: nothing, the
\* credentials of an earlier run, or credentials that no longer decrypt
StartCredentials ==
    { NoCredentials,
      Credentials(PyStr(Key12), PyStr(Secret32), PyStr(<<PAPER>>)),
      Credentials(PyNone, PyNone, PyStr(<<PAPER>>)) }

\* no call was made yet
NoCall ==
    /\ call = "none"
    /\ user_input = <<>>
    /\ returned = NotReturned
    /\ response = <<>>
    /\ actions = <<>>
    /\ results = <<>>
    /\ calls = <<>>
    /\ raised = "no"

InitGateway ==
    /\ entry = "trader"
    /\ NoCall
    /\ \E start \in StartCredentials :
          /\ config = start
          /\ config_file =
                Credentials(IF Truthy(start.api_key)
                            THEN Encrypted(start.api_key) ELSE start.api_key,
                            IF Truthy(start.api_secret)
                            THEN Encrypted(start.api_secret)
                            ELSE start.api_secret,
                            start.base_url)
          /\ file_modes =
                FileModes(IF start = NoCredentials THEN "absent" ELSE "600",
                          "600")
          /\ account_manager = start
    /\ alpaca_client = NoClient
    /\ trading_client = PyNone
    /\ order_manager = NoManager

\* a call of the trader: its name and what it did
TraderCall(name, g) ==
    /\ call' = name
    /\ returned' = g.returned
    /\ calls' = g.calls
    /\ raised' = g.raised
    /\ UNCHANGED <<entry, user_input, response, actions, results,
                   trading_client, order_manager>>

GetAlpacaClient ==
    /\ entry = "trader"
    /\ alpaca_client' = get_alpaca_client(alpaca_client, account_manager)
    /\ TraderCall("get_alpaca_client",
                  Gw(Returned("client", <<>>, <<>>, <<>>), <<>>, "no"))
    /\ UNCHANGED <<config, config_file, file_modes, account_manager>>

ConfigureAccount ==
    /\ entry = "trader"
    /\ \E i \in ConfigureInputs :
          LET r == configure_account(account_manager, config, i[1], i[2],
                                     i[3], i[4])
          IN /\ account_manager' = r.account_manager
             /\ config' = r.config
             /\ config_file' = IF r.ok THEN r.config ELSE config_file
             /\ file_modes' = IF r.ok
                              THEN [file_modes EXCEPT !.config_file = "600"]
                              ELSE file_modes
             /\ TraderCall("configure_account",
                           Gw(IF r.ok THEN RetTrue ELSE RetFalse, r.calls,
                              "no"))
    /\ UNCHANGED alpaca_client

\* a method of the client that was created
ClientCall(name, g) ==
    /\ entry = "trader"
    /\ alpaca_client.created
    /\ TraderCall(name, g)
    /\ UNCHANGED <<config, config_file, file_modes, account_manager,
                   alpaca_client>>

GetAccount ==
    \E http \in HttpOutcomes :
        ClientCall("get_account",
                   get_account(alpaca_client, account_manager, http))

GetPositions ==
    \E http \in HttpOutcomes :
        ClientCall("get_positions",
                   get_positions(alpaca_client, account_manager, http))

GetPosition ==
    \E http \in HttpOutcomes :
        ClientCall("get_position",
                   get_position(alpaca_client, account_manager, "AAPL", http))

GetOrders ==
    \E http \in HttpOutcomes :
        ClientCall("get_orders",
                   get_orders(alpaca_client, account_manager, http))

GetOrder ==
    \E http \in HttpOutcomes :
        ClientCall("get_order",
                   get_order(alpaca_client, account_manager, "order-id", http))

SubmitOrder ==
    \E http \in HttpOutcomes :
        ClientCall("submit_order",
                   submit_order(alpaca_client, account_manager,
                                [symbol |-> <<"AAPL">>, side |-> "buy",
                                 type |-> "market", time_in_force |-> "day",
                                 qty |-> PyStr(<<"1">>)],
                                http))

CancelOrder ==
    \E http \in HttpOutcomes :
        ClientCall("cancel_order",
                   cancel_order(alpaca_client, account_manager, "order-id",
                                http))

CancelAllOrders ==
    \E http \in HttpOutcomes :
        ClientCall("cancel_all_orders",
                   cancel_all_orders(alpaca_client, account_manager, http))

NextGateway ==
    \/ GetAlpacaClient
    \/ ConfigureAccount
    \/ GetAccount
    \/ GetPositions
    \/ GetPosition
    \/ GetOrders
    \/ GetOrder
    \/ SubmitOrder
    \/ CancelOrder
    \/ CancelAllOrders

SpecGateway == InitGateway /\ [][NextGateway]_vars

---------------------------------------------------------------------------
(* The order managers, called with the parameters of an order              *)

\* (qty, notional): what get_quantity_or_notional gives, and what another
\* caller may pass
QtyNotional ==
    { get_quantity_or_notional("q", 1), get_quantity_or_notional("n", 2),
      <<PyNone, PyNone>>, <<PyInt(1), PyInt(2)>>, <<PyInt(0), PyNone>> }
\* symbol, side, (qty, notional)
OrderTickets ==
    {<<<<"aapl">>, "buy", qn>> : qn \in QtyNotional}
        \cup {<<<<"aapl">>, "sell", qn>> :
                 qn \in {<<PyInt(1), PyNone>>, <<PyNone, PyInt(2)>>}}
        \cup {<<<<>>, "buy", <<PyInt(1), PyNone>>>>}
Prices == {PyNone, PyInt(0), PyInt(2)}
\* (stop_price, limit_price)
StopLimitPrices ==
    {<<PyInt(2), PyInt(1)>>, <<PyNone, PyInt(1)>>, <<PyInt(2), PyInt(0)>>}
\* what the brokerage answers to an order
OrderOutcomes == {"201", "422", "exception"}

\* get_order_manager() and one method of the manager: the manager holds the
\* client that get_alpaca_client() gives it
OrderCall(name, g) ==
    /\ entry = "trader"
    /\ alpaca_client' = get_alpaca_client(alpaca_client, account_manager)
    /\ TraderCall(name, g)
    /\ UNCHANGED <<config, config_file, file_modes, account_manager>>

MarketOrder ==
    \E t \in OrderTickets, extended_hours \in BOOLEAN,
       http \in OrderOutcomes :
        OrderCall("market_order",
                  market_order(get_alpaca_client(alpaca_client,
                                                 account_manager),
                               account_manager, t[1], t[2], t[3][1], t[3][2],
                               extended_hours, http))

LimitOrder ==
    \E t \in OrderTickets, limit_price \in Prices,
       extended_hours \in BOOLEAN, http \in OrderOutcomes :
        OrderCall("limit_order",
                  limit_order(get_alpaca_client(alpaca_client,
                                                account_manager),
                              account_manager, t[1], t[2], limit_price,
                              t[3][1], t[3][2], extended_hours, http))

StopOrder ==
    \E t \in OrderTickets, stop_price \in Prices, http \in OrderOutcomes :
        OrderCall("stop_order",
                  stop_order(get_alpaca_client(alpaca_client,
                                               account_manager),
                             account_manager, t[1], t[2], stop_price,
                             t[3][1], t[3][2], http))

StopLimitOrder ==
    \E t \in OrderTickets, p \in StopLimitPrices, http \in OrderOutcomes :
        OrderCall("stop_limit_order",
                  stop_limit_order(get_alpaca_client(alpaca_client,
                                                     account_manager),
                                   account_manager, t[1], t[2], p[1], p[2],
                                   t[3][1], t[3][2], http))

NextOrderManager ==
    \/ MarketOrder
    \/ LimitOrder
    \/ StopOrder
    \/ StopLimitOrder

---------------------------------------------------------------------------
(* The official order manager                                              *)

\* TradingClient(api_key=..., secret_key=..., paper=...), with
\* paper = 'paper' in self.base_url if self.base_url else True
TradingClient(am) ==
    [ty |-> "TradingClient", api_key |-> am.api_key,
     secret_key |-> am.api_secret,
     paper |-> (~Truthy(am.base_url) \/ am.base_url.s = <<PAPER>>)]

\* OfficialAccountManager(): a trading client is made when the key and the
\* secret are there; the constructor of the SDK may raise, and then there
\* is none
InitOfficial ==
    /\ entry = "official"
    /\ NoCall
    /\ \E start \in StartCredentials :
          /\ config = start
          /\ config_file =
                Credentials(IF Truthy(start.api_key)
                            THEN Encrypted(start.api_key) ELSE start.api_key,
                            IF Truthy(start.api_secret)
                            THEN Encrypted(start.api_secret)
                            ELSE start.api_secret,
                            start.base_url)
          /\ file_modes =
                FileModes(IF start = NoCredentials THEN "absent" ELSE "600",
                          "600")
          /\ account_manager = start
          /\ trading_client \in
                IF Truthy(start.api_key) /\ Truthy(start.api_secret)
                THEN {TradingClient(start), PyNone} ELSE {PyNone}
    /\ alpaca_client = NoClient
    /\ order_manager = NoManager

\* symbol, side, (qty, notional): side is a string here
OfficialTickets ==
    OrderTickets \cup {<<<<"aapl">>, "Sell", <<PyInt(1), PyNone>>>>,
                       <<<<"aapl">>, "of", <<PyInt(1), PyNone>>>>}
SdkOutcomes == {"invalid", "accept", "reject"}

OfficialCall(name, g) ==
    /\ entry = "official"
    /\ order_manager.created
    /\ call' = name
    /\ returned' = g.returned
    /\ calls' = g.calls
    /\ raised' = g.raised
    /\ UNCHANGED <<entry, user_input, response, actions, results, traderVars>>

OfficialMarketOrder ==
    \E t \in OfficialTickets, extended_hours \in BOOLEAN,
       sdk \in SdkOutcomes :
        OfficialCall("official_market_order",
                     official_market_order(order_manager.trading_client,
                     t[1], t[2],
                                           t[3][1], t[3][2], extended_hours,
                                           sdk))

OfficialLimitOrder ==
    \E t \in OfficialTickets, limit_price \in Prices,
       extended_hours \in BOOLEAN, sdk \in SdkOutcomes :
        OfficialCall("official_limit_order",
                     official_limit_order(order_manager.trading_client,
                     t[1], t[2],
                                          limit_price, t[3][1], t[3][2],
                                          extended_hours, sdk))

OfficialStopOrder ==
    \E t \in OfficialTickets, stop_price \in Prices, sdk \in SdkOutcomes :
        OfficialCall("official_stop_order",
                     official_stop_order(order_manager.trading_client,
                     t[1], t[2],
                                         stop_price, t[3][1], t[3][2], sdk))

OfficialStopLimitOrder ==
    \E t \in OfficialTickets, p \in StopLimitPrices, sdk \in SdkOutcomes :
        OfficialCall("official_stop_limit_order",
                     official_stop_limit_order(order_manager.trading_client,
                     t[1], t[2],
                                               p[1], p[2], t[3][1], t[3][2],
                                               sdk))

\* get_official_order_manager(): the first call constructs the manager,
\* which copies the trading client the account manager holds then
GetOfficialOrderManager ==
    /\ entry = "official"
    /\ order_manager' = IF order_manager.created THEN order_manager
                        ELSE [created |-> TRUE,
                              trading_client |-> trading_client]
    /\ call' = "get_official_order_manager"
    /\ returned' = Returned("manager", <<>>, <<>>, <<>>)
    /\ calls' = <<>>
    /\ raised' = "no"
    /\ UNCHANGED <<entry, user_input, response, actions, results, config,
                   config_file, file_modes, account_manager, alpaca_client,
                   trading_client>>

NextOfficial ==
    \/ GetOfficialOrderManager
    \/ OfficialMarketOrder
    \/ OfficialLimitOrder
    \/ OfficialStopOrder
    \/ OfficialStopLimitOrder

---------------------------------------------------------------------------
(* Every way an order reaches the brokerage: the trader's order manager    *)
(* and client, the official order manager, the AI broker's dispatcher      *)

InitOrders == InitGateway \/ InitOfficial \/ InitDispatch

NextOrders ==
    \/ NextGateway
    \/ NextOrderManager
    \/ NextOfficial
    \/ NextDispatch

SpecOrders == InitOrders /\ [][NextOrders]_vars

---------------------------------------------------------------------------
(* Properties of the gateway                                               *)

GatewayOps ==
    {"get_account", "get_positions", "get_position", "get_orders",
     "get_order", "submit_order", "cancel_order", "cancel_all_orders"}

\* the last call was a method of the client
GatewayCalled == entry = "trader" /\ call \in GatewayOps

\* the key, the secret or the base URL of the account is missing
Unconfigured ==
    \/ ~Truthy(account_manager.api_key)
    \/ ~Truthy(account_manager.api_secret)
    \/ ~Truthy(account_manager.base_url)

C8_GatewayNeverRaises ==
    GatewayCalled => (raised = "no" /\ returned # NotReturned)

---------------------------------------------------------------------------
(* Properties of the orders                                                *)

\* the calls that submit an order: the order managers' and the broker's
OrderPaths ==
    {"market_order", "limit_order", "stop_order", "stop_limit_order",
     "official_market_order", "official_limit_order", "official_stop_order",
     "official_stop_limit_order", "execute_actions"}

\* the order a call carries to the brokerage: the body of a POST of the
\* client, the request handed to the trading client of the SDK
IsOrder(c) == c.op \in {"POST", "submit_order"}
OrderData(c) == IF c.op = "POST" THEN c.req.body ELSE c.req

\* the field of the order is there and is not None
IsSet(order, field) == field \in DOMAIN order /\ order[field] # PyNone

\* (qty, notional) with both given or none
BothOrNeither(qn) == (qn[1] = PyNone) = (qn[2] = PyNone)

\* an order method that submitted nothing
Rejected(g) == g.returned = RetNone /\ g.calls = <<>> /\ g.raised = "no"

\* C6: every order that an order manager or the broker submitted has
\* exactly one of qty and notional set; and in every state the client, the
\* account and the trading client of the trader can be in, each order
\* method called with both of them or with neither returns None and submits
\* nothing, whatever the other parameters are.
C6_ExactlyOneOfQtyNotional ==
    /\ call \in OrderPaths =>
          \A k \in 1..Len(calls) :
              IsOrder(calls[k]) =>
                  IsSet(OrderData(calls[k]), "qty")
                      # IsSet(OrderData(calls[k]), "notional")
    /\ entry \in {"trader", "official"} =>
          \A qn \in {x \in QtyNotional : BothOrNeither(x)},
             side \in {"buy", "sell"}, price \in Prices,
             extended_hours \in BOOLEAN :
             LET c == get_alpaca_client(alpaca_client, account_manager)
                 am == account_manager
                 tc == trading_client
                 s == <<"aapl">>
             IN /\ \A http \in OrderOutcomes :
                      /\ Rejected(market_order(c, am, s, side, qn[1], qn[2],
                                               extended_hours, http))
                      /\ Rejected(limit_order(c, am, s, side, price, qn[1],
                                              qn[2], extended_hours, http))
                      /\ Rejected(stop_order(c, am, s, side, price, qn[1],
                                             qn[2], http))
                      /\ Rejected(stop_limit_order(c, am, s, side, price,
                                                   price, qn[1], qn[2], http))
                /\ \A sdk \in SdkOutcomes :
                      /\ Rejected(official_market_order(tc, s, side, qn[1],
                                                        qn[2], extended_hours,
                                                        sdk))
                      /\ Rejected(official_limit_order(tc, s, side, price,
                                                       qn[1], qn[2],
                                                       extended_hours, sdk))
                      /\ Rejected(official_stop_order(tc, s, side, price,
                                                      qn[1], qn[2], sdk))
                      /\ Rejected(official_stop_limit_order(tc, s, side,
                                                            price, price,
                                                            qn[1], qn[2],
                                                            sdk))

\* a limit order of 2 dollars' worth went to the brokerage, with notional
\* set and qty not
C6_Witness ==
    /\ call = "limit_order"
    /\ is_configured(account_manager)
    /\ Len(calls) = 1
    /\ IsOrder(calls[1])
    /\ IsSet(OrderData(calls[1]), "notional")
    /\ ~IsSet(OrderData(calls[1]), "qty")
    /\ returned = RetJson

\* the buy_stock actions of the list
BuyActions == SelectSeq(actions, IsBuy)

\* C9: a call of the client, of an order manager or of configure_account
\* makes at most one request, whatever the brokerage answers; and
\* execute_actions submits at most one order for each buy_stock action of
\* its list, so never more orders than the list has buy_stock actions.
C9_SingleAttempt ==
    /\ entry \in {"trader", "official"} => Len(calls) <= 1
    /\ Executed =>
          /\ Len(Submissions) <= Len(BuyActions)
          /\ \A i, j \in 1..Len(Submissions) :
                Submissions[i] = Submissions[j] /\ i # j
                    => \E a, b \in 1..Len(BuyActions) :
                          /\ a # b
                          /\ BuyActions[a] = BuyActions[b]

\* the one buy_stock action of the list was submitted once and rejected
C9_Witness ==
    /\ Executed
    /\ Len(BuyActions) = 1
    /\ Len(Submissions) = 1
    /\ Submissions[1].outcome = "reject"
    /\ HasKey(results, ResultKey("buy_stock", Len(actions) - 1))

---------------------------------------------------------------------------
(* The ConfigManager on its own (utils/config.py)                          *)

\* how many calls are made on the configuration managers of one run
MaxCalls == 4

\* (api_key, api_secret, paper_trading): the calls of
\* set_alpaca_credentials
CredentialInputs ==
    { <<PyStr(Key12), PyStr(Secret32), TRUE>>,
      <<PyStr(<<"K">>), PyStr(<<"s">>), FALSE>>,
      <<PyStr(<<>>), PyStr(<<"s">>), TRUE>>,
      <<PyNone, PyNone, FALSE>> }

\* a ConfigManager was constructed on the files an earlier run left, or on
\* none: the key file is there, and the config file was loaded
InitConfig ==
    /\ entry = "config"
    /\ NoCall
    /\ \E start \in StartCredentials :
          /\ config = start
          /\ config_file = Saved(start)
          /\ file_modes =
                FileModes(IF start = NoCredentials THEN "absent" ELSE "600",
                          "600")
    /\ account_manager = NoCredentials
    /\ alpaca_client = NoClient
    /\ trading_client = PyNone
    /\ order_manager = NoManager

\* a call on the configuration manager: calls keeps every call of the run
\* with its arguments
ConfigCall(name, args, ret) ==
    /\ entry = "config"
    /\ Len(calls) < MaxCalls
    /\ call' = name
    /\ calls' = Append(calls, Call(name, args, "ok"))
    /\ returned' = ret
    /\ raised' = "no"
    /\ UNCHANGED <<entry, user_input, response, actions, results,
                   account_manager, alpaca_client, trading_client,
                   order_manager>>

\* the tuple get_alpaca_credentials returns
CredentialsTuple(c) ==
    Returned("credentials", <<>>,
             <<<<"api_key", c.api_key>>, <<"api_secret", c.api_secret>>,
               <<"base_url", c.base_url>>>>, <<>>)

SetAlpacaCredentials ==
    \E i \in CredentialInputs :
        /\ config' = set_alpaca_credentials(i[1], i[2], i[3])
        /\ config_file' = Saved(Credentials(i[1], i[2], BaseUrl(i[3])))
        /\ file_modes' = [file_modes EXCEPT !.config_file = "600"]
        /\ ConfigCall("set_alpaca_credentials",
                      [api_key |-> i[1], api_secret |-> i[2],
                       paper_trading |-> i[3]], RetNone)

SaveConfig ==
    /\ config' = save_config(config)
    /\ config_file' = Saved(config)
    /\ file_modes' = [file_modes EXCEPT !.config_file = "600"]
    /\ ConfigCall("save_config", EmptyDict, RetNone)

\* ConfigManager() anew on the same two files, as the next run of the
\* program does
NewConfigManager ==
    /\ file_modes' = [file_modes EXCEPT
                         !.key_file = IF @ = "absent" THEN "600" ELSE @]
    /\ config' = IF file_modes.config_file = "absent" THEN NoCredentials
                 ELSE load_config(config_file)
    /\ ConfigCall("ConfigManager", EmptyDict, RetNone)
    /\ UNCHANGED config_file

GetAlpacaCredentials ==
    /\ ConfigCall("get_alpaca_credentials", EmptyDict,
                  CredentialsTuple(get_alpaca_credentials(config)))
    /\ UNCHANGED <<config, config_file, file_modes>>

NextConfig ==
    \/ SetAlpacaCredentials
    \/ SaveConfig
    \/ NewConfigManager
    \/ GetAlpacaCredentials

SpecConfig == InitConfig /\ [][NextConfig]_vars

\* the call before the last one, and the last one
PreviousCall == calls[Len(calls) - 1]
LastCall == calls[Len(calls)]

\* the credentials a call of set_alpaca_credentials was given
Given(c) ==
    Credentials(c.req.api_key, c.req.api_secret,
                PyStr(<<IF c.req.paper_trading THEN PAPER ELSE LIVE>>))

\* a ConfigManager was constructed right after set_alpaca_credentials was
\* called with a key and a secret that are not empty
LoadedAfterSet ==
    /\ Len(calls) >= 2
    /\ call = "ConfigManager"
    /\ PreviousCall.op = "set_alpaca_credentials"
    /\ PreviousCall.req.api_key.ty = "str" /\ PreviousCall.req.api_key.s # <<>>
    /\ PreviousCall.req.api_secret.ty = "str"
    /\ PreviousCall.req.api_secret.s # <<>>

SetCalls == SelectSeq(calls, LAMBDA c : c.op = "set_alpaca_credentials")
LastSet == SetCalls[Len(SetCalls)]

\* a string that is not empty
NonEmpty(v) == v.ty = "str" /\ v.s # <<>>

\* set_alpaca_credentials was called, and every time with a key and a
\* secret that are not empty
NonEmptyCredentialsSet ==
    /\ SetCalls # <<>>
    /\ \A i \in 1..Len(SetCalls) :
          NonEmpty(SetCalls[i].req.api_key)
              /\ NonEmpty(SetCalls[i].req.api_secret)

\* C15: after calls of set_alpaca_credentials with non-empty credentials,
\* and calls of save_config and constructions of a ConfigManager in
\* between, the key and the secret in the config file are ciphertexts and
\* not the strings that were given, the base URL in it is the plain URL of
\* the environment, and the config file and the key file have mode 600
C15_StoredEncryptedMode600 ==
    NonEmptyCredentialsSet =>
        /\ config_file.api_key.ty = "cipher"
        /\ config_file.api_secret.ty = "cipher"
        /\ config_file.api_key # LastSet.req.api_key
        /\ config_file.api_secret # LastSet.req.api_secret
        /\ config_file.base_url = Given(LastSet).base_url
        /\ config_file.base_url.ty = "str"
        /\ file_modes = FileModes("600", "600")

\* set_alpaca_credentials, then save_config on the same manager
C15_Witness ==
    /\ NonEmptyCredentialsSet
    /\ Len(calls) >= 2
    /\ call = "save_config"
    /\ PreviousCall.op = "set_alpaca_credentials"
    /\ config_file.api_key.ty = "cipher"
    /\ config_file.base_url = PyStr(<<LIVE>>)

\* C19: save_config leaves the configuration in memory as it was: right
\* after set_alpaca_credentials(k, s, paper) with a key and a secret that
\* are not empty, get_alpaca_credentials() on the same manager returns k, s
\* and the base URL of the environment
C19_InMemoryUnchanged ==
    ( /\ Len(calls) >= 2
      /\ call = "get_alpaca_credentials"
      /\ PreviousCall.op = "set_alpaca_credentials"
      /\ NonEmpty(PreviousCall.req.api_key)
      /\ NonEmpty(PreviousCall.req.api_secret) )
        => returned = CredentialsTuple(Given(PreviousCall))

\* the records of the market data under a key, and the requests for the
\* bars of a symbol that were answered with bars
RecordsOf(key) ==
    SelectSeq(MarketDataOf, LAMBDA e : e[1] = key)
BarsFound(symbol) ==
    SelectSeq(calls, LAMBDA c : c.op = "get_stock_bars"
                                    /\ c.req.symbol = symbol
                                    /\ c.outcome = "bars")
AccountCalls == SelectSeq(calls, LAMBDA c : c.op = "get_account")

\* C16: get_market_data does not raise: the market data goes into the
\* prompt.  It holds exactly one record for each symbol asked for and one
\* under "account".  A symbol none of whose three requests was answered
\* with bars has a record with price None, tradeable true and a note; the
\* other symbols have their price all the same, and the account record is
\* there, with the snapshot or with the error of get_account.
C16_MarketDataAlwaysComplete ==
    ProcessedInstruction =>
        /\ raised = "no"
        /\ Len(Completion) = 1
        /\ Len(MarketDataOf) = Cardinality(SymbolsOf(user_input)) + 1
        /\ \A x \in SymbolsOf(user_input) :
              /\ Len(RecordsOf(x)) = 1
              /\ BarsFound(x) = <<>> =>
                    /\ RecordsOf(x)[1][2].price = "None"
                    /\ RecordsOf(x)[1][2].tradeable = TRUE
                    /\ "note" \in DOMAIN RecordsOf(x)[1][2]
              /\ BarsFound(x) # <<>> =>
                    /\ RecordsOf(x)[1][2].price = "close"
                    /\ RecordsOf(x)[1][2].timeframe
                          = BarsFound(x)[1].req.timeframe
        /\ Len(RecordsOf(<<"account">>)) = 1
        /\ Len(AccountCalls) >= 1
        /\ AccountCalls[1].outcome = "ok"
              => "equity" \in DOMAIN RecordsOf(<<"account">>)[1][2]
        /\ AccountCalls[1].outcome # "ok"
              => DOMAIN RecordsOf(<<"account">>)[1][2] = {"error"}

\* two symbols, the first to be fetched without a bar, the other with one,
\* and an account that cannot be read
C16_Witness ==
    /\ ProcessedInstruction
    /\ Cardinality(SymbolsOf(user_input)) = 2
    /\ \E x, y \in SymbolsOf(user_input) :
          /\ BarsFound(x) = <<>>
          /\ BarsFound(y) # <<>>
          /\ DayRequests[1].req.symbol = x
          /\ Len(RecordsOf(y)) = 1
    /\ AccountCalls[1].outcome = "raise"
    /\ Len(RecordsOf(<<"account">>)) = 1

---------------------------------------------------------------------------
(* The keys of the dispatcher's result dict                                *)

\* execute_actions returned a result dict
ExecutedAll == call = "execute_actions" /\ raised = "no"

\* the names the dispatcher knows
KnownActions == {"buy_stock", "get_stock_price", "get_account_info"}

\* the handler of the action raises before it calls the operation: the
\* symbol is no string (.strip() of it), or int() rejects the quantity
RaisesInHandler(a) ==
    \/ /\ a.action \in {"buy_stock", "get_stock_price"}
       /\ "symbol" \in DOMAIN a.params
       /\ a.params.symbol.ty # "str"
    \/ /\ a.action = "buy_stock"
       /\ "quantity" \in DOMAIN a.params
       /\ ~PyIntOf(a.params.quantity).ok

\* C17 as the spec states it: the result of the action at index i with name
\* n is recorded under the key "n_i", whatever the action and its outcome
C17_KeyIsNameIndex ==
    ExecutedAll =>
        \A i \in 1..Len(actions) :
            HasKey(results, <<actions[i].action, "_">> \o IntStr(i - 1))

\* C17, amended: the result dict holds one entry for each action, in the
\* order of the list.  The key of the action at index i with name n is
\* "n_i" when n is one of the three names the dispatcher knows and the
\* handler returned a result (a success, a validation error, an error
\* result of the operation), "n_i_error" when the handler raised, and
\* "unknown_action_i" when n is another name; no two entries share a key.
C17_KeyByOutcome ==
    ExecutedAll =>
        /\ Len(results) = Len(actions)
        /\ \A i \in 1..Len(actions) :
              results[i][1] =
                 IF actions[i].action \notin KnownActions
                 THEN <<"unknown_action", "_">> \o IntStr(i - 1)
                 ELSE IF RaisesInHandler(actions[i])
                 THEN <<actions[i].action, "_">> \o IntStr(i - 1)
                          \o <<"_error">>
                 ELSE <<actions[i].action, "_">> \o IntStr(i - 1)
        /\ \A i, j \in 1..Len(results) :
              i # j => results[i][1] # results[j][1]

\* the same action twice, rejected by the brokerage the second time, and
\* an action whose handler raises after an action that succeeds
C17_Witness ==
    /\ ExecutedAll
    /\ Len(actions) = 2
    /\ actions[1] = BuyAction(<<"AAPL">>, 10)
    /\ \/ /\ actions[2] = actions[1]
          /\ results[1][1] = <<"buy_stock", "_", "0">>
          /\ results[1][2].status = "success"
          /\ results[2][1] = <<"buy_stock", "_", "1">>
          /\ results[2][2].status = "error"
       \/ /\ RaisesInHandler(actions[2])
          /\ results[2][1] = <<"buy_stock", "_", "1", "_error">>

---------------------------------------------------------------------------
(* The official demo's running menu: orders, and "Setup Account"           *)

\* (api_key, api_secret, paper_trading) a user may type in setup_account;
\* official configure_account checks no format
SetupInputs ==
    { <<PyStr(Key12), PyStr(Secret32), TRUE>>,
      <<PyStr(Key12), PyStr(Secret32), FALSE>>,
      <<PyStr(<<"K">>), PyStr(<<"s">>), TRUE>> }

\* OfficialAccountManager.configure_account: the credentials are saved and
\* taken over first, then the client is made; ok: whether the constructor
\* of the SDK returns a client.  The order manager is not told.
OfficialConfigureAccount ==
    /\ entry = "official"
    /\ \E i \in SetupInputs, ok \in BOOLEAN :
          /\ config' = set_alpaca_credentials(i[1], i[2], i[3])
          /\ config_file' = Saved(Credentials(i[1], i[2], BaseUrl(i[3])))
          /\ account_manager' = Credentials(i[1], i[2], BaseUrl(i[3]))
          /\ trading_client' =
                IF ok THEN TradingClient(Credentials(i[1], i[2],
                                                     BaseUrl(i[3])))
                ELSE PyNone
          /\ returned' = IF ok THEN RetTrue ELSE RetFalse
    /\ file_modes' = [file_modes EXCEPT !.config_file = "600"]
    /\ call' = "configure_account"
    /\ calls' = <<>>
    /\ raised' = "no"
    /\ UNCHANGED <<entry, user_input, response, actions, results,
                   alpaca_client, order_manager>>

NextDemo ==
    \/ OfficialConfigureAccount
    \/ NextOfficial

SpecDemo == InitOfficial /\ [][NextDemo]_vars

\* the order methods of the official order manager
OfficialOrders ==
    {"official_market_order", "official_limit_order", "official_stop_order",
     "official_stop_limit_order"}

\* C18: an order that is submitted while the account is configured (the
\* account manager holds a trading client, made by its constructor or by
\* the last configure_account) is submitted on that client, with the key,
\* the secret and the environment the account manager holds, whether the
\* order manager was created before or after the account was configured
C18_OrdersUseConfiguredAccount ==
    (call \in OfficialOrders /\ trading_client # PyNone) =>
        \A k \in 1..Len(calls) :
            /\ calls[k].client = trading_client
            /\ calls[k].client.api_key = account_manager.api_key
            /\ calls[k].client.secret_key = account_manager.api_secret
            /\ calls[k].client.paper = (account_manager.base_url.s = <<PAPER>>)

\* the get_account calls among the calls made
GetAccountCalls == SelectSeq(calls, LAMBDA c : c.op = "get_account")

\* C20: every result the dispatcher records for buy_stock, get_stock_price
\* and get_account_info has a status that is success, error or partial,
\* and a get_account_info whose account was retrieved has status success,
\* one whose retrieval failed has status error
C20_StatusVocabulary ==
    ExecutedAll =>
        /\ \A j \in 1..Len(results) :
              results[j][2].status \in {"success", "error", "partial"}
        /\ ( /\ Len(actions) = 1
             /\ actions[1].action = "get_account_info"
             /\ Len(GetAccountCalls) = 1 )
              => results[1][2].status
                    = IF GetAccountCalls[1].outcome = "ok" THEN "success"
                      ELSE "error"

---------------------------------------------------------------------------
(* The actions of one line                                                 *)

\* the text is a block of one line of Lines
OneLineBlock == \E l \in Lines : response = Block(<<l>>)

\* the actions of a name among the actions extracted
ActionsNamed(name) == SelectSeq(actions, LAMBDA a : a.action = name)

\* C21 as the spec states it: a line gives at most one action among
\* buy_stock and get_stock_price, and apart from that at most one
\* get_account_info
C21_OneBuyOrPricePerLine ==
    (Extracted /\ OneLineBlock) =>
        /\ Len(ActionsNamed("buy_stock"))
              + Len(ActionsNamed("get_stock_price")) <= 1
        /\ Len(ActionsNamed("get_account_info")) <= 1

\* C21, amended: the buy patterns, the price patterns and the account
\* pattern are three checks of their own.  A line gives at most one
\* buy_stock, at most one get_stock_price and at most one
\* get_account_info, in this order, so at most three actions; a block of
\* n lines gives at most 3n.
C21_OnePerKindPerLine ==
    Extracted =>
        /\ OneLineBlock =>
              /\ Len(ActionsNamed("buy_stock")) <= 1
              /\ Len(ActionsNamed("get_stock_price")) <= 1
              /\ Len(ActionsNamed("get_account_info")) <= 1
              /\ actions = ActionsNamed("buy_stock")
                              \o ActionsNamed("get_stock_price")
                              \o ActionsNamed("get_account_info")
        /\ \A n \in 1..MaxLines :
              (\E ls \in LineSeqs(n) : response = Block(ls))
                  => Len(actions) <= 3 * n

\* a line that holds a buy, a price query and an account query, and a line
\* on which two buy patterns match
C21_Witness ==
    /\ Extracted
    /\ \/ /\ response = Block(<<BuyLine("positional", DQ, "AAPL", 10)
                                  \o <<SP>>
                                  \o PriceLine("positional", DQ, "AAPL")
                                  \o <<SP>> \o AccountLine>>)
          /\ Len(actions) = 3
       \/ /\ response = Block(<<BuyLine("shares_of", "none", "AAPL", 1)
                                  \o <<SP>>
                                  \o BuyLine("keyword_quantity", DQ, "MSFT",
                                             2)>>)
          /\ Len(actions) = 1

\* the symbols of the actions extracted
SymbolActions == SelectSeq(actions, LAMBDA a : "symbol" \in DOMAIN a.params)

\* C22: every symbol of an Action the extractor returns, for a buy and for
\* a price query and in each syntax, is upper-case and holds no quote
\* character
C22_SymbolsUpperCaseUnquoted ==
    Extracted =>
        \A k \in 1..Len(SymbolActions) :
            /\ Upper(SymbolActions[k].params.symbol.s)
                  = SymbolActions[k].params.symbol.s
            /\ \A j \in 1..Len(SymbolActions[k].params.symbol.s) :
                  SymbolActions[k].params.symbol.s[j] \notin {DQ, SQ}

\* the text holds a block: an opening tag and a closing tag after it
HasBlock ==
    \E i, j \in 1..Len(response) :
        i < j /\ response[i] = OPEN /\ response[j] = CLOSE

\* the first opening tag, and the first closing tag after it
FirstOpen ==
    CHOOSE i \in 1..Len(response) :
        response[i] = OPEN /\ \A k \in 1..(i - 1) : response[k] # OPEN
FirstClose ==
    CHOOSE j \in (FirstOpen + 1)..Len(response) :
        response[j] = CLOSE
            /\ \A k \in (FirstOpen + 1)..(j - 1) : response[k] # CLOSE

\* the text between the two
FirstBlockText == SubSeq(response, FirstOpen + 1, FirstClose - 1)

\* there is text before the first block or after it
TextOutsideBlock == FirstOpen > 1 \/ FirstClose < Len(response)

\* C23: without a block the extractor returns the empty list; with one, the
\* actions are those of the lines between the first opening tag and the
\* first closing tag after it, whatever stands before and after: a call or
\* a buy phrase outside gives no Action
C23_OnlyFirstBlockCounts ==
    Extracted =>
        /\ ~HasBlock => actions = <<>>
        /\ HasBlock =>
              actions = ActionsOfLines(SplitLines(Strip(FirstBlockText)))

\* a buy before the block and a buy in the results section after it
C23_Witness ==
    /\ Extracted
    /\ HasBlock
    /\ TextOutsideBlock
    /\ response = BuyLine("positional", DQ, "MSFT", 2) \o <<NL>> \o AaplBlock
                     \o <<NL, "<results>", NL>>
                     \o BuyLine("positional", DQ, "MSFT", 2)
    /\ actions = <<AaplAction>>

---------------------------------------------------------------------------
(* Buys the dispatcher rejects                                             *)

\* the symbol of the buy is a string that is not blank
HasSymbol(a) ==
    /\ "symbol" \in DOMAIN a.params
    /\ a.params.symbol.ty = "str"
    /\ Strip(a.params.symbol.s) # <<>>

\* the quantity of the buy is an int above 0
PositiveInteger(a) ==
    /\ "quantity" \in DOMAIN a.params
    /\ a.params.quantity.ty = "int"
    /\ a.params.quantity.n > 0

\* int() turns the quantity of the buy into a number above 0: an int above
\* 0, a string of digits that is one, a float of 1 or more
ConvertsToPositive(a) ==
    /\ "quantity" \in DOMAIN a.params
    /\ PyIntOf(a.params.quantity).ok
    /\ PyIntOf(a.params.quantity).n > 0

\* the order a buy stands for
OrderOf(a) ==
    MarketOrderRequest(Upper(Strip(a.params.symbol.s)),
                       PyIntOf(a.params.quantity).n)

\* the orders submitted, in the order of their submission
OrdersOf(cs) == [k \in 1..Len(cs) |-> cs[k].req]

\* the buys of the list that are to be submitted: as the spec states it,
\* and as int() decides it
AcceptedAsStated ==
    SelectSeq(actions, LAMBDA a : /\ a.action = "buy_stock"
                                  /\ HasSymbol(a) /\ PositiveInteger(a))
AcceptedByInt ==
    SelectSeq(actions, LAMBDA a : /\ a.action = "buy_stock"
                                  /\ HasSymbol(a) /\ ConvertsToPositive(a))

\* C24 as the spec states it: a buy whose symbol is empty or whose
\* quantity is not a positive integer has an entry with status error and
\* no order is submitted for it: the orders submitted are those of the
\* buys with a symbol and a positive integer quantity
C24_InvalidBuyRejected ==
    ExecutedAll =>
        /\ \A i \in 1..Len(actions) :
              (actions[i].action = "buy_stock"
                  /\ ~(HasSymbol(actions[i]) /\ PositiveInteger(actions[i])))
                  => results[i][2].status = "error"
        /\ Len(Submissions) = Len(AcceptedAsStated)

---------------------------------------------------------------------------
(* The order of the pipeline                                               *)

\* where the completion call stands among the calls made
CompletionIndex ==
    CHOOSE k \in 1..Len(calls) : calls[k].op = "messages.create"

\* where a token stands first in the completion's text
FirstPosition(t) ==
    CHOOSE i \in 1..Len(response) :
        response[i] = t /\ \A k \in 1..(i - 1) : response[k] # t

\* C25: the calls of process_instruction stand in the order of the
\* pipeline.  The requests for the market data and its account snapshot
\* come before the completion call; every call of a dispatched action
\* comes after it; the orders submitted are those of the buys of the
\* extracted list, in the order of the list; and this is the order in
\* which their symbols stand in the completion's text.
C25_PipelineOrder ==
    (ProcessedInstruction /\ Len(Completion) = 1) =>
        /\ \A k \in 1..(CompletionIndex - 1) :
              calls[k].op \in {"get_stock_bars", "get_account"}
        /\ calls[CompletionIndex - 1].op = "get_account"
        /\ \A x \in SymbolsOf(user_input) :
              \E k \in 1..(CompletionIndex - 1) :
                  calls[k].op = "get_stock_bars" /\ calls[k].req.symbol = x
        /\ \A k \in 1..Len(calls) :
              calls[k].op = "submit_order" => k > CompletionIndex
        /\ OrdersOf(Submissions)
              = [k \in 1..Len(AcceptedByInt) |-> OrderOf(AcceptedByInt[k])]
        /\ \A k, l \in 1..Len(Submissions) :
              k < l => FirstPosition(Submissions[k].req.symbol[1])
                          < FirstPosition(Submissions[l].req.symbol[1])

\* two buy lines, two orders, after the market data of a symbol
C25_Witness ==
    /\ ProcessedInstruction
    /\ Len(Completion) = 1
    /\ SymbolsOf(user_input) # {}
    /\ Len(Submissions) = 2
    /\ Submissions[1].req.symbol = <<"AAPL">>
    /\ Submissions[1].outcome = "reject"
    /\ Submissions[2].req.symbol = <<"MSFT">>
    /\ FirstPosition("AAPL") < FirstPosition("MSFT")

---------------------------------------------------------------------------
(* The string process_instruction returns                                  *)

\* the completion call came back with a text
CompletionText ==
    /\ ProcessedInstruction
    /\ Len(Completion) = 1
    /\ Completion[1].outcome = "text"

\* C26: after a completion that came back with a text, the actions are
\* those extracted from that text.  With no action the text itself is
\* returned, nothing is recorded, and the completion call is the last call
\* made on any client.  With one action or more the returned string is the
\* text, an empty line, the line <actual_results>, the dumped results of
\* the dispatcher (one entry per action) and the line </actual_results>.
C26_ResponseOrResults ==
    CompletionText =>
        /\ response \in Completions
        /\ actions = extract_action_from_response(response)
        /\ actions = <<>> =>
              /\ returned = Returned("claude_response", response, <<>>, <<>>)
              /\ results = <<>>
              /\ calls[Len(calls)].op = "messages.create"
        /\ actions # <<>> =>
              /\ returned.kind = "full_response"
              /\ returned.head
                    = response \o <<NL, NL, "<actual_results>", NL>>
              /\ returned.results = results
              /\ returned.tail = <<NL, "</actual_results>">>
              /\ Len(results) = Len(actions)
              /\ calls[Len(calls)].op # "messages.create"

\* a text without an actions block comes back as it is, after the market
\* data of a symbol was fetched
C26_Witness ==
    /\ CompletionText
    /\ response = <<"Buy", SP, "AAPL", ".", NL>>
    /\ actions = <<>>
    /\ returned.kind = "claude_response"
    /\ returned.head = response
    /\ Len(calls) > 2

---------------------------------------------------------------------------
(* The timeframes get_market_data asks for                                 *)

\* the requests for the bars of a symbol made for the market data, in the
\* order they were made
MarketBarsOf(x) ==
    SelectSeq(SubSeq(calls, 1, CompletionIndex - 1),
              LAMBDA c : c.op = "get_stock_bars" /\ c.req.symbol = x)

\* the requests for a symbol take the timeframes of the list tfs in its
\* order, each over 30 days, and none follows a request that found a bar
TimeframesInOrder(tfs) ==
    \A x \in SymbolsOf(user_input) :
        /\ Len(MarketBarsOf(x)) \in 1..Len(tfs)
        /\ \A k \in 1..Len(MarketBarsOf(x)) :
              /\ MarketBarsOf(x)[k].req.timeframe = tfs[k]
              /\ MarketBarsOf(x)[k].req.days = 30
              /\ k < Len(MarketBarsOf(x))
                    => MarketBarsOf(x)[k].outcome # "bars"
        /\ Len(MarketBarsOf(x)) < Len(tfs)
              => MarketBarsOf(x)[Len(MarketBarsOf(x))].outcome = "bars"

\* C27 as the spec states it: for each symbol the timeframes are asked for
\* from the finest to the coarsest (minute, hour, day), over 30 days, and
\* the first request that finds a bar is the last for that symbol
C27_CoarserTimeframes ==
    ProcessedInstruction =>
        TimeframesInOrder(<<"Minute", "Hour", "Day">>)

\* C27 (amended): for each symbol the timeframes are asked for from the
\* coarsest to the finest (day, hour, minute), over 30 days; a request
\* that comes back empty or fails is followed by the next timeframe, and
\* the first request that finds a bar is the last for that symbol
C27_FinerTimeframes ==
    ProcessedInstruction =>
        TimeframesInOrder(<<"Day", "Hour", "Minute">>)

\* the day request came back empty, the hour request found a bar: no minute
\* request was made
C27_Witness ==
    /\ ProcessedInstruction
    /\ \E x \in SymbolsOf(user_input) :
          /\ Len(MarketBarsOf(x)) = 2
          /\ MarketBarsOf(x)[1].req.timeframe = "Day"
          /\ MarketBarsOf(x)[1].outcome = "empty"
          /\ MarketBarsOf(x)[2].req.timeframe = "Hour"
          /\ MarketBarsOf(x)[2].outcome = "bars"

---------------------------------------------------------------------------
(* A configure_account of the official account manager that fails          *)

\* C28: a configure_account of the official account manager that returns
\* False leaves the saved credentials, the credentials the manager holds
\* and the trading client it held as they were before the call
C28_FailedSetupChangesNothing ==
    [][ (entry = "official" /\ call' = "configure_account"
            /\ returned' = RetFalse)
        => /\ config_file' = config_file
           /\ account_manager' = account_manager
           /\ trading_client' = trading_client ]_vars

---------------------------------------------------------------------------
(* A configure_account of the account manager that fails                   *)

\* C29: a configure_account of the account manager that returns False
\* leaves the saved configuration, the configuration in memory and the
\* manager's key, secret and base URL as they were, and is_configured()
\* answers as before; the saved configuration changes only in a call that
\* returns True, and that call made one request for the account, answered
\* with status 200, with a key and a secret of the required formats, which
\* the manager holds afterwards.
C29_SavedOnlyAfterChecks ==
    [][ (entry = "trader" /\ call' = "configure_account") =>
           /\ returned' \in {RetTrue, RetFalse}
           /\ returned' = RetFalse =>
                 /\ config_file' = config_file
                 /\ config' = config
                 /\ file_modes' = file_modes
                 /\ account_manager' = account_manager
                 /\ is_configured(account_manager')
                       = is_configured(account_manager)
           /\ (returned' = RetTrue \/ config_file' # config_file) =>
                 /\ returned' = RetTrue
                 /\ Len(calls') = 1
                 /\ calls'[1].outcome = "200"
                 /\ KeyFormat(calls'[1].req.key.s)
                 /\ SecretFormat(calls'[1].req.secret.s)
                 /\ account_manager'.api_key = calls'[1].req.key
                 /\ account_manager'.api_secret = calls'[1].req.secret
                 /\ is_configured(account_manager') ]_vars

\* credentials of the right formats were refused by the key test: the
\* manager keeps the other credentials it was configured with
C29_Witness ==
    /\ entry = "trader"
    /\ call = "configure_account"
    /\ returned = RetFalse
    /\ Len(calls) = 1
    /\ calls[1].outcome # "200"
    /\ is_configured(account_manager)
    /\ account_manager.base_url # PyStr(calls[1].req.url)
    /\ config_file.api_key.ty = "cipher"

---------------------------------------------------------------------------
(* One entry per action                                                    *)

\* every action of the list has a name and parameters
AllWellFormed == \A i \in 1..Len(actions) : WellFormed(actions[i])

\* the outcomes of the list: the entries with status success, the error
\* entries of the handlers' own checks and of the operations, the entries
\* for unknown names, the entries of caught exceptions
Outcome(j) ==
    IF results[j][1][1] = "unknown_action" THEN "unknown"
    ELSE IF results[j][1][Len(results[j][1])] = "_error" THEN "caught"
    ELSE IF results[j][2].status = "error" THEN "error"
    ELSE "returned"

\* C30: for every list of actions that each have a name and parameters,
\* execute_actions returns (it does not raise) a dict with as many entries
\* as the list has actions: no entry replaces another, and the entry at
\* position i belongs to the action at position i, whether that action
\* succeeded, was refused, has an unknown name or raised in its handler.
C30_OneEntryPerAction ==
    (Executed /\ AllWellFormed) =>
        /\ raised = "no"
        /\ Cardinality({results[j][1] : j \in 1..Len(results)})
              = Len(actions)
        /\ Len(results) = Len(actions)
        /\ \A i \in 1..Len(actions) :
              /\ Outcome(i) = "unknown"
                    <=> actions[i].action \notin KnownActions
              /\ Outcome(i) = "caught" <=> RaisesInHandler(actions[i])
              /\ Len(results[i][1]) >= Len(IntStr(i - 1)) + 2
              /\ SubSeq(results[i][1], 3, Len(IntStr(i - 1)) + 2)
                    = IntStr(i - 1)

\* an unknown name twice, and a caught exception next to an unknown name
C30_Witness ==
    /\ Executed
    /\ AllWellFormed
    /\ Len(actions) = 2
    /\ Len(results) = 2
    /\ actions[1].action = "sell_stock"
    /\ Outcome(1) = "unknown"
    /\ Outcome(2) \in {"unknown", "caught"}

===========================================================================
